---- MODULE Spec2Model ----
(***************************************************************************)
(* Keyscan diagnostics (cormoran/zmk-module-keyscan-diagnostics).          *)
(*                                                                         *)
(* src/src/studio/custom_handler.c holds three diagnostic engines, each a  *)
(* separate firmware build:                                                *)
(*   "diag"  - lines 1..350: keyscan_diag_listener, burst chatter counter, *)
(*             line activity, Snapshot request;                            *)
(*   "state" - lines 600..1242: the `state` struct, record_key_event,      *)
(*             ring buffer with overflow flag, chattering alerts;          *)
(*   "mutex" - lines 352..598 (RPC front) and 1244..1615 (engine guarded   *)
(*             by diag_mutex): event_buffer, chatter_stats.                *)
(* The variable `variant` is fixed at start-up and selects the build; the  *)
(* other builds' variables then keep their initial values.                 *)
(***************************************************************************)
EXTENDS Integers, Sequences, FiniteSets, TLC

(***************************************************************************)
(* Build configuration (Kconfig / devicetree values of the modelled build) *)
(***************************************************************************)
KEYSCAN_DIAG_LINE_COUNT == 4
KEYSCAN_DIAG_KEY_COUNT == 12
CHATTER_WINDOW_MS == 30
CHATTER_BURST == 3
SNAPSHOT_KEYS_LEN == 12
SNAPSHOT_LINES_LEN == 4

CHARLIEPLEX_GPIO_COUNT == 4
MAX_EVENTS == 2
DEFAULT_CHATTERING_WINDOW_MS == 50
DEFAULT_CHATTERING_THRESHOLD == 4
KEY_STATS_LEN == 120
CHATTERING_ALERTS_LEN == 32
EVENTS_RESP_LEN == 2
KEY_MATRIX_KEYS_LEN == 12
ALERTS_RESP_LEN == 32

EVENT_BUFFER_SIZE == 2
MAX_CHATTER_STATS == 32
MAX_GPIO_PINS == 16
KSCAN_NODE_GPIOS_LEN == 4
CONFIG_CHATTER_THRESHOLD_MS == 50
GET_STATE_EVENTS_LEN == 20
GET_STATE_STATS_LEN == 32
GET_STATE_PINS_LEN == 16

\* UINT32_MAX.  TLC's integers are 32-bit signed, so the model uses the largest
\* of them; it is only ever compared with (never added to) the counters, the
\* intervals and the line indices, all far below it within the bounds.
UINT32_MAX == 2147483647

(***************************************************************************)
(* Bounds of the model                                                     *)
(***************************************************************************)
MaxEvents == 3

\* Key positions the environment raises events for: two keys that share a
\* line, and one position past the key map.
EventPositions == {0, 4, KEYSCAN_DIAG_KEY_COUNT}
\* Milliseconds between two consecutive events: the same millisecond, inside
\* every chatter window of the builds, outside every one of them.
TickSteps == {0, 5, 60}
\* The events raised: <<position, milliseconds since the previous event>>.
\* Key 0 is exercised at every spacing, key 4 and the position past the key
\* map at one spacing each.
EventInputs ==
    ({0} \X TickSteps) \cup {<<4, 5>>, <<KEYSCAN_DIAG_KEY_COUNT, 0>>}
\* The events raised where the two contexts are interleaved step by step:
\* one spacing for each position.
ThreadEventInputs == {<<0, 5>>, <<4, 5>>, <<KEYSCAN_DIAG_KEY_COUNT, 0>>}
\* chatter_threshold_ms values a StartMonitoring request carries (0 = omitted).
ThresholdInputs == {0, 10}
\* Maximum counts a reader of the event buffer asks for: fewer than the
\* buffer holds, and all of it.
MaxCountInputs == {1, MAX_EVENTS}

U8(x) == x % 256
MIN(a, b) == IF a < b THEN a ELSE b

VARIABLES
    variant,                     \* which build runs
    now,                         \* uptime in ms (k_uptime_get / ev->timestamp)
    key_down,                    \* physical state of the switches
    n_events,                    \* number of events raised so far
    hist,                        \* history: the events raised since the last
                                 \* reset of the counters that the engine had
                                 \* to record (valid key, monitoring on)
    buf_mark,                    \* history: Len(hist) at the last drain of
                                 \* the event buffer
    keyscan_stats,               \* diag: per-key statistics
    keyscan_diag_line_activity,  \* diag: per-line activity counters
    state,                       \* state: the module state struct
    kscan_dev,                   \* state: device pointer, NULL until first start
    event_buffer,                \* mutex: circular buffer
    event_buffer_head,
    event_buffer_count,
    total_event_count,
    chatter_stats,               \* mutex: chatter_stats[0 .. chatter_stats_count)
    gpio_pins_count,
    matrix_rows,
    matrix_cols,
    monitoring_active,
    chatter_threshold_ms,
    diag_mutex,                  \* mutex: the context that holds diag_mutex
    producer,                    \* the event context: where it is, its event
    consumer,                    \* the request context: where it is, its
                                 \* request, the response built so far, the
                                 \* engine calls still to make
    ui                           \* the web UI: where its handler is, its
                                 \* monitoring flag, the response it awaits

envVars == <<variant, now, key_down, n_events, hist, buf_mark>>
diagVars == <<keyscan_stats, keyscan_diag_line_activity>>
stateVars == <<state, kscan_dev>>
bufVars == <<event_buffer, event_buffer_head, event_buffer_count, total_event_count>>
topoVars == <<gpio_pins_count, matrix_rows, matrix_cols>>
mutexVars == <<bufVars, chatter_stats, topoVars, monitoring_active, chatter_threshold_ms>>
threadVars == <<diag_mutex, producer, consumer>>
vars == <<envVars, diagVars, stateVars, mutexVars, threadVars, ui>>

(***************************************************************************)
(* Position -> (row, col) of a charlieplex matrix: the scan of             *)
(* keyscan_diagnostics_position_listener, which walks row then col, skips  *)
(* row == col and counts the remaining pairs.                              *)
(***************************************************************************)
NoPair == <<>>

RECURSIVE ScanPosition(_, _, _, _)
ScanPosition(row, col, current_pos, pos) ==
    IF row >= CHARLIEPLEX_GPIO_COUNT THEN NoPair
    ELSE IF col >= CHARLIEPLEX_GPIO_COUNT THEN ScanPosition(row + 1, 0, current_pos, pos)
    ELSE IF row = col THEN ScanPosition(row, col + 1, current_pos, pos)
    ELSE IF current_pos = pos THEN <<row, col>>
    ELSE ScanPosition(row, col + 1, current_pos + 1, pos)

PairAt_withdiagonal(pos) ==
    IF pos >= CHARLIEPLEX_GPIO_COUNT * CHARLIEPLEX_GPIO_COUNT THEN NoPair
    ELSE <<pos \div CHARLIEPLEX_GPIO_COUNT, pos % CHARLIEPLEX_GPIO_COUNT>>

PairAt(pos) == ScanPosition(0, 0, 0, pos)

(***************************************************************************)
(* Environment: the switches.  position_state_changed is raised when a     *)
(* switch changes state, so the events of one key alternate press/release. *)
(***************************************************************************)
KeyEvent(p, d) ==
    [position |-> p, state |-> ~key_down[p], timestamp |-> now + d]

\* The bookkeeping of every raised event: clock, switch, history.  `due` says
\* whether the engine has to record the event: its key exists and monitoring
\* was on when it arrived.
Deliver(ev, due) ==
    /\ n_events < MaxEvents
    /\ n_events' = n_events + 1
    /\ now' = ev.timestamp
    /\ key_down' = [key_down EXCEPT ![ev.position] = ev.state]
    /\ hist' = IF due
               THEN Append(hist, [position |-> ev.position, pressed |-> ev.state,
                                  timestamp_ms |-> ev.timestamp])
               ELSE hist
    /\ UNCHANGED <<variant, buf_mark>>

HistReset == hist' = <<>> /\ buf_mark' = 0
HistDrain == buf_mark' = Len(hist) /\ UNCHANGED hist
HistKeep == UNCHANGED <<hist, buf_mark>>

ValidPosition(p) == p < KEYSCAN_DIAG_KEY_COUNT

(***************************************************************************)
(*                         Build "diag"                                    *)
(***************************************************************************)
ZeroStat ==
    [press_count |-> 0, release_count |-> 0, chatter_count |-> 0, burst |-> 0,
     burst_start |-> 0, last_change |-> 0, pressed |-> FALSE, seen |-> FALSE]

ZeroLineRef == [drive |-> 0, sense |-> 0, valid |-> FALSE]

\* static zmk_matrix_transform_t diag_transform; is never assigned.
NullTransform == "NULL"
diag_transform == NullTransform

\* zmk_matrix_transform_row_column_to_position of a transform that lists the
\* off-diagonal pairs in scan order; -1 where the transform has no entry.
RowColumnToPosition(row, col) ==
    IF \E p \in 0..(KEYSCAN_DIAG_KEY_COUNT - 1) : PairAt(p) = <<row, col>>
    THEN CHOOSE p \in 0..(KEYSCAN_DIAG_KEY_COUNT - 1) : PairAt(p) = <<row, col>>
    ELSE -1

RECURSIVE BuildLineMap(_, _, _)
BuildLineMap(row, col, map) ==
    IF row >= KEYSCAN_DIAG_LINE_COUNT THEN map
    ELSE IF col >= KEYSCAN_DIAG_LINE_COUNT THEN BuildLineMap(row + 1, 0, map)
    ELSE IF row = col THEN BuildLineMap(row, col + 1, map)
    ELSE LET position == RowColumnToPosition(row, col) IN
         IF position < 0 \/ position >= KEYSCAN_DIAG_KEY_COUNT
         THEN BuildLineMap(row, col + 1, map)
         ELSE BuildLineMap(row, col + 1,
                  [map EXCEPT ![position] = [drive |-> row, sense |-> col, valid |-> TRUE]])

keyscan_diag_build_line_map ==
    LET zero == [i \in 0..(KEYSCAN_DIAG_KEY_COUNT - 1) |-> ZeroLineRef] IN
    IF diag_transform = NullTransform THEN zero ELSE BuildLineMap(0, 0, zero)

\* Built once by keyscan_diag_init, never written afterwards.
keyscan_line_map == keyscan_diag_build_line_map

keyscan_diag_update_chatter_keepburst(stat, timestamp) ==
    LET s1 == IF stat.burst_start = 0 \/ (timestamp - stat.burst_start) > CHATTER_WINDOW_MS
              THEN [stat EXCEPT !.burst_start = timestamp, !.burst = 0]
              ELSE stat
        s2 == [s1 EXCEPT !.burst = U8(@ + 1)]
    IN IF s2.burst >= CHATTER_BURST
       THEN [s2 EXCEPT !.chatter_count = @ + 1]
       ELSE s2

keyscan_diag_update_chatter(stat, timestamp) ==
    LET s1 == IF stat.burst_start = 0 \/ (timestamp - stat.burst_start) > CHATTER_WINDOW_MS
              THEN [stat EXCEPT !.burst_start = timestamp, !.burst = 0]
              ELSE stat
        s2 == [s1 EXCEPT !.burst = U8(@ + 1)]
    IN IF s2.burst >= CHATTER_BURST
       THEN [s2 EXCEPT !.chatter_count = @ + 1, !.burst = 0, !.burst_start = timestamp]
       ELSE s2

keyscan_diag_count_norelease(stat, ev) ==
    [stat EXCEPT !.seen = TRUE, !.pressed = ev.state, !.last_change = ev.timestamp,
                 !.press_count = IF ev.state THEN @ + 1 ELSE @]

keyscan_diag_count_presstwice(stat, ev) ==
    [stat EXCEPT !.seen = TRUE, !.pressed = ev.state, !.last_change = ev.timestamp,
                 !.press_count = IF ev.state THEN @ + 2 ELSE @,
                 !.release_count = IF ev.state THEN @ ELSE @ + 1]

\* Lines 145..154 of keyscan_diag_listener: the per-key counters.
keyscan_diag_count(stat, ev) ==
    [stat EXCEPT !.seen = TRUE, !.pressed = ev.state, !.last_change = ev.timestamp,
                 !.press_count = IF ev.state THEN @ + 1 ELSE @,
                 !.release_count = IF ev.state THEN @ ELSE @ + 1]

keyscan_diag_account_unmappedcounts(position, ev) ==
    /\ keyscan_stats' =
         [keyscan_stats EXCEPT ![position] =
             keyscan_diag_update_chatter(keyscan_diag_count(@, ev), ev.timestamp)]
    /\ keyscan_diag_line_activity' =
         LET ref == keyscan_line_map[position]
             a1 == [keyscan_diag_line_activity EXCEPT ![ref.drive] = @ + 1]
         IN [a1 EXCEPT ![ref.sense] = @ + 1]

\* Lines 145..164 of keyscan_diag_listener: the accounting of an event on
\* the key at `position`.
keyscan_diag_account(position, ev) ==
    /\ keyscan_stats' =
         [keyscan_stats EXCEPT ![position] =
             keyscan_diag_update_chatter(keyscan_diag_count(@, ev), ev.timestamp)]
    /\ keyscan_diag_line_activity' =
         IF keyscan_line_map[position].valid
         THEN LET ref == keyscan_line_map[position]
                  a1 == [keyscan_diag_line_activity EXCEPT ![ref.drive] = @ + 1]
              IN [a1 EXCEPT ![ref.sense] = @ + 1]
         ELSE keyscan_diag_line_activity

keyscan_diag_listener_wrapped(ev) ==
    keyscan_diag_account(ev.position % KEYSCAN_DIAG_KEY_COUNT, ev)

keyscan_diag_listener(ev) ==
    IF ev.position >= KEYSCAN_DIAG_KEY_COUNT
    THEN UNCHANGED diagVars
    ELSE keyscan_diag_account(ev.position, ev)

keyscan_diag_reset_counters ==
    /\ keyscan_stats' = [i \in 0..(KEYSCAN_DIAG_KEY_COUNT - 1) |-> ZeroStat]
    /\ keyscan_diag_line_activity' = [l \in 0..(KEYSCAN_DIAG_LINE_COUNT - 1) |-> 0]

SnapshotKey_seenwhilepressed(i) ==
    LET stat == keyscan_stats[i] IN
    [position |-> i, pressed |-> stat.pressed, press_count |-> stat.press_count,
     release_count |-> stat.release_count, chatter_count |-> stat.chatter_count,
     last_change_ms |-> stat.last_change, never_seen |-> ~stat.pressed,
     line_drive |-> IF keyscan_line_map[i].valid THEN keyscan_line_map[i].drive ELSE UINT32_MAX,
     line_sense |-> IF keyscan_line_map[i].valid THEN keyscan_line_map[i].sense ELSE UINT32_MAX]

\* One key of the snapshot (the layout shape, which no counter depends on,
\* is left out).
SnapshotKey(i) ==
    LET stat == keyscan_stats[i] IN
    [position |-> i, pressed |-> stat.pressed, press_count |-> stat.press_count,
     release_count |-> stat.release_count, chatter_count |-> stat.chatter_count,
     last_change_ms |-> stat.last_change, never_seen |-> ~stat.seen,
     line_drive |-> IF keyscan_line_map[i].valid THEN keyscan_line_map[i].drive ELSE UINT32_MAX,
     line_sense |-> IF keyscan_line_map[i].valid THEN keyscan_line_map[i].sense ELSE UINT32_MAX]

ZeroSummary == [involved |-> 0, chatter_keys |-> 0, missing |-> 0]

\* The accumulation of line_summary over the keys [i, n) the first loop visits.
RECURSIVE LineSummary(_, _, _)
LineSummary(i, n, sum) ==
    IF i >= n THEN sum
    ELSE IF ~keyscan_line_map[i].valid THEN LineSummary(i + 1, n, sum)
    ELSE LET ref == keyscan_line_map[i]
             stat == keyscan_stats[i]
             Bump(s, l) ==
                 [s EXCEPT ![l] =
                     [involved |-> @.involved + 1,
                      chatter_keys |-> @.chatter_keys + (IF stat.chatter_count > 0 THEN 1 ELSE 0),
                      missing |-> @.missing + (IF ~stat.seen THEN 1 ELSE 0)]]
         IN LineSummary(i + 1, n, Bump(Bump(sum, ref.drive), ref.sense))

SuspectedFault_noinvolved(involved_keys, activity, chatter_keys, missing) ==
    activity = 0 \/ chatter_keys > 0 \/ missing > 0

\* Lines 270..272 of keyscan_diag_fill_snapshot.
SuspectedFault(involved_keys, activity, chatter_keys, missing) ==
    involved_keys > 0 /\ (activity = 0 \/ chatter_keys > 0 \/ missing > 0)

SnapshotLine(i, summary) ==
    [index |-> i, activity |-> keyscan_diag_line_activity[i],
     involved_keys |-> summary[i].involved, chatter_keys |-> summary[i].chatter_keys,
     suspected_fault |-> SuspectedFault(summary[i].involved, keyscan_diag_line_activity[i],
                                        summary[i].chatter_keys, summary[i].missing)]

\* The response keyscan_diag_fill_snapshot fills in, read from the counters
\* before the optional reset.
keyscan_diag_fill_snapshot_response ==
    LET keys_count == MIN(KEYSCAN_DIAG_KEY_COUNT, SNAPSHOT_KEYS_LEN)
        lines_count == MIN(KEYSCAN_DIAG_LINE_COUNT, SNAPSHOT_LINES_LEN)
        summary == LineSummary(0, keys_count,
                               [l \in 0..(KEYSCAN_DIAG_LINE_COUNT - 1) |-> ZeroSummary])
    IN [which |-> "snapshot",
        keys |-> [k \in 1..keys_count |-> SnapshotKey(k - 1)],
        lines |-> [k \in 1..lines_count |-> SnapshotLine(k - 1, summary)],
        chatter_burst_threshold |-> CHATTER_BURST,
        chatter_window_ms |-> CHATTER_WINDOW_MS]

keyscan_diag_fill_snapshot(req) ==
    IF req.reset_counters
    THEN keyscan_diag_reset_counters /\ HistReset
    ELSE UNCHANGED diagVars /\ HistKeep

ErrorResponse(message) == [which |-> "error", message |-> message]

\* Requests as they arrive on the wire: a payload pb_decode rejects, a
\* decoded request whose oneof case the switch does not list, or a Snapshot.
DiagRequests ==
    {[which |-> "malformed"], [which |-> "unsupported"]}
      \cup {[which |-> "snapshot", reset_counters |-> r] : r \in BOOLEAN}

\* What keyscan_diag_handle_request answers to req.
keyscan_diag_handle_request_response(req) ==
    IF req.which = "malformed" THEN ErrorResponse("Failed to decode request")
    ELSE IF req.which = "snapshot" THEN keyscan_diag_fill_snapshot_response
    ELSE ErrorResponse("Failed to process request")

keyscan_diag_handle_request(req) ==
    IF req.which = "snapshot"
    THEN keyscan_diag_fill_snapshot(req)
    ELSE UNCHANGED diagVars /\ HistKeep

DiagEvent(p, d) ==
    /\ variant = "diag"
    /\ Deliver(KeyEvent(p, d), ValidPosition(p))
    /\ keyscan_diag_listener(KeyEvent(p, d))
    /\ UNCHANGED <<stateVars, mutexVars, threadVars, ui>>

DiagRequest(req) ==
    /\ variant = "diag"
    /\ keyscan_diag_handle_request(req)
    /\ UNCHANGED <<variant, now, key_down, n_events, stateVars, mutexVars, threadVars, ui>>

(***************************************************************************)
(*                         Build "state"                                   *)
(***************************************************************************)
ZeroEvent == [row |-> 0, col |-> 0, pressed |-> FALSE, timestamp_ms |-> 0]
ZeroKeyStats ==
    [press_count |-> 0, release_count |-> 0, current_state |-> FALSE, last_event_time |-> 0]

\* key_stats has KEY_STATS_LEN entries; only the indices row * max_cols + col
\* of the matrix can be addressed, so the model keeps those.
KeyStatsIdx ==
    {i \in 0..(CHARLIEPLEX_GPIO_COUNT * CHARLIEPLEX_GPIO_COUNT - 1) : i < KEY_STATS_LEN}

StateInit ==
    [monitoring_active |-> FALSE,
     events |-> [i \in 0..(MAX_EVENTS - 1) |-> ZeroEvent],
     event_head |-> 0, event_count |-> 0, total_events |-> 0,
     buffer_overflow |-> FALSE,
     chattering_window_ms |-> DEFAULT_CHATTERING_WINDOW_MS,
     chattering_threshold |-> DEFAULT_CHATTERING_THRESHOLD,
     chattering_alerts |-> <<>>,
     key_stats |-> [i \in KeyStatsIdx |-> ZeroKeyStats],
     max_rows |-> 0, max_cols |-> 0]

\* Lines 772..789 of record_key_event: the ring buffer (head = oldest entry).
BufferPut_headstays(st, ev) ==
    IF st.event_count < MAX_EVENTS
    THEN [st EXCEPT !.events[(st.event_head + st.event_count) % MAX_EVENTS] = ev,
                    !.event_count = @ + 1,
                    !.total_events = @ + 1]
    ELSE [st EXCEPT !.events[st.event_head] = ev,
                    !.buffer_overflow = TRUE,
                    !.total_events = @ + 1]

BufferPut(st, ev) ==
    IF st.event_count < MAX_EVENTS
    THEN [st EXCEPT !.events[(st.event_head + st.event_count) % MAX_EVENTS] = ev,
                    !.event_count = @ + 1,
                    !.total_events = @ + 1]
    ELSE [st EXCEPT !.events[st.event_head] = ev,
                    !.event_head = (@ + 1) % MAX_EVENTS,
                    !.buffer_overflow = TRUE,
                    !.total_events = @ + 1]

\* Lines 804..828: the alert list after an event at time t on a key whose
\* statistics before the event are ks.
AlertUpdate(alerts, ks, row, col, t, window_ms) ==
    IF ks.last_event_time > 0 /\ (t - ks.last_event_time) < window_ms
    THEN IF \E i \in 1..Len(alerts) : alerts[i].row = row /\ alerts[i].col = col
         THEN LET i == CHOOSE k \in 1..Len(alerts) :
                          /\ alerts[k].row = row /\ alerts[k].col = col
                          /\ \A j \in 1..(k - 1) : ~(alerts[j].row = row /\ alerts[j].col = col)
              IN [alerts EXCEPT ![i].event_count = @ + 1, ![i].last_event_ms = t]
         ELSE IF Len(alerts) < CHATTERING_ALERTS_LEN
         THEN Append(alerts, [row |-> row, col |-> col, event_count |-> 2,
                              first_event_ms |-> ks.last_event_time, last_event_ms |-> t])
         ELSE alerts
    ELSE alerts

\* Lines 791..831: per-key statistics and chattering.
KeyStatsUpdate(st, row, col, pressed, t) ==
    IF row < st.max_rows /\ col < st.max_cols /\ (row * st.max_cols + col) < KEY_STATS_LEN
    THEN LET key_idx == row * st.max_cols + col
             ks == st.key_stats[key_idx]
         IN [st EXCEPT !.key_stats[key_idx] =
                           [press_count |-> IF pressed THEN ks.press_count + 1
                                            ELSE ks.press_count,
                            release_count |-> IF pressed THEN ks.release_count
                                              ELSE ks.release_count + 1,
                            current_state |-> pressed,
                            last_event_time |-> t],
                       !.chattering_alerts =
                           AlertUpdate(@, ks, row, col, t, st.chattering_window_ms)]
    ELSE st

\* `t` is the value k_uptime_get() returns.
record_key_event(row, col, pressed, t) ==
    IF ~state.monitoring_active
    THEN UNCHANGED state
    ELSE state' = KeyStatsUpdate(BufferPut(state, [row |-> row, col |-> col,
                                                   pressed |-> pressed, timestamp_ms |-> t]),
                                 row, col, pressed, t)

keyscan_diagnostics_position_listener(ev) ==
    IF PairAt(ev.position) = NoPair
    THEN UNCHANGED state
    ELSE record_key_event(PairAt(ev.position)[1], PairAt(ev.position)[2], ev.state, ev.timestamp)

NullDevice == "NULL"
CharlieplexDevice == "kscan"

handle_get_kscan_config_response ==
    [which |-> "kscan_config", type |-> "KSCAN_TYPE_CHARLIEPLEX",
     gpios_count |-> CHARLIEPLEX_GPIO_COUNT]

handle_get_kscan_config ==
    /\ state' = [state EXCEPT !.max_rows = CHARLIEPLEX_GPIO_COUNT,
                              !.max_cols = CHARLIEPLEX_GPIO_COUNT]
    /\ UNCHANGED kscan_dev /\ HistKeep

\* The loops of handle_get_key_matrix from (row, col) on, `keys` filled so far.
RECURSIVE KeyMatrixKeys(_, _, _)
KeyMatrixKeys(row, col, keys) ==
    IF row >= CHARLIEPLEX_GPIO_COUNT THEN keys
    ELSE IF col >= CHARLIEPLEX_GPIO_COUNT THEN KeyMatrixKeys(row + 1, 0, keys)
    ELSE IF row = col THEN KeyMatrixKeys(row, col + 1, keys)
    ELSE IF Len(keys) >= KEY_MATRIX_KEYS_LEN THEN KeyMatrixKeys(row + 1, 0, keys)
    ELSE LET key_idx == row * CHARLIEPLEX_GPIO_COUNT + col
             ks == IF key_idx < KEY_STATS_LEN THEN state.key_stats[key_idx] ELSE ZeroKeyStats
         IN KeyMatrixKeys(row, col + 1,
               Append(keys, [row |-> row, col |-> col,
                             gpio_out_index |-> row, gpio_in_index |-> col,
                             current_state |-> ks.current_state,
                             press_count |-> ks.press_count,
                             release_count |-> ks.release_count]))

handle_get_key_matrix_withdiagonal ==
    [which |-> "key_matrix", type |-> "KSCAN_TYPE_CHARLIEPLEX",
     rows |-> CHARLIEPLEX_GPIO_COUNT, cols |-> CHARLIEPLEX_GPIO_COUNT,
     keys |-> [k \in 1..MIN(CHARLIEPLEX_GPIO_COUNT * CHARLIEPLEX_GPIO_COUNT,
                            KEY_MATRIX_KEYS_LEN) |->
                 LET row == (k - 1) \div CHARLIEPLEX_GPIO_COUNT
                     col == (k - 1) % CHARLIEPLEX_GPIO_COUNT
                 IN [row |-> row, col |-> col, gpio_out_index |-> row,
                     gpio_in_index |-> col,
                     current_state |-> state.key_stats[k - 1].current_state,
                     press_count |-> state.key_stats[k - 1].press_count,
                     release_count |-> state.key_stats[k - 1].release_count]]]

handle_get_key_matrix_response ==
    [which |-> "key_matrix", type |-> "KSCAN_TYPE_CHARLIEPLEX",
     rows |-> CHARLIEPLEX_GPIO_COUNT, cols |-> CHARLIEPLEX_GPIO_COUNT,
     keys |-> KeyMatrixKeys(0, 0, <<>>)]

handle_get_key_matrix_setsdims ==
    /\ state' = [state EXCEPT !.max_rows = CHARLIEPLEX_GPIO_COUNT,
                              !.max_cols = CHARLIEPLEX_GPIO_COUNT]
    /\ UNCHANGED kscan_dev /\ HistKeep

handle_get_key_matrix == UNCHANGED stateVars /\ HistKeep

\* `ready` is what device_is_ready(kscan_dev) answers.
handle_start_monitoring_state_response(ready) ==
    IF kscan_dev = NullDevice
    THEN IF ready
         THEN [which |-> "start_monitoring", success |-> TRUE,
               message |-> "Monitoring started (charlieplex)"]
         ELSE [which |-> "start_monitoring", success |-> FALSE,
               message |-> "Kscan device not ready"]
    ELSE [which |-> "start_monitoring", success |-> TRUE,
          message |-> "Monitoring restarted"]

\* The handler never reads req.
handle_start_monitoring_state(req) ==
    /\ state' = [state EXCEPT !.monitoring_active = TRUE,
                              !.event_head = 0, !.event_count = 0, !.total_events = 0,
                              !.buffer_overflow = FALSE,
                              !.chattering_alerts = <<>>,
                              !.key_stats = [i \in KeyStatsIdx |-> ZeroKeyStats],
                              !.max_rows = CHARLIEPLEX_GPIO_COUNT,
                              !.max_cols = CHARLIEPLEX_GPIO_COUNT]
    /\ kscan_dev' = CharlieplexDevice
    /\ HistReset

handle_stop_monitoring_state_dropbuffer ==
    /\ state' = [state EXCEPT !.monitoring_active = FALSE, !.event_count = 0]
    /\ UNCHANGED kscan_dev /\ HistKeep

handle_stop_monitoring_state ==
    /\ state' = [state EXCEPT !.monitoring_active = FALSE]
    /\ UNCHANGED kscan_dev /\ HistKeep

handle_get_events_newest_first(req) ==
    LET copy_count == MIN(state.event_count, EVENTS_RESP_LEN) IN
    [which |-> "events", buffer_overflow |-> state.buffer_overflow,
     total_events |-> state.total_events,
     events |-> [i \in 1..copy_count |->
                   state.events[(state.event_head + copy_count - i) % MAX_EVENTS]]]

\* The sizes the response array of GetEvents can have next to a buffer of
\* MAX_EVENTS entries: MAX_EVENTS is a Kconfig value, the array size is fixed
\* by the protocol.
ResponseArraySizes == {1, EVENTS_RESP_LEN}

\* Lines 1013..1019: the copy loop, for a response array of resp_len entries.
handle_get_events_copy(resp_len) ==
    LET copy_count == MIN(state.event_count, resp_len) IN
    [i \in 1..copy_count |-> state.events[(state.event_head + (i - 1)) % MAX_EVENTS]]

\* handle_get_events copies from event_head on and never reads req->max_count.
handle_get_events_response(req) ==
    [which |-> "events", buffer_overflow |-> state.buffer_overflow,
     total_events |-> state.total_events,
     events |-> handle_get_events_copy(EVENTS_RESP_LEN)]

handle_get_events_dropsflag(req) ==
    /\ IF req.clear_buffer
       THEN /\ state' = [state EXCEPT !.event_head = 0, !.event_count = 0,
                                      !.buffer_overflow = FALSE]
            /\ HistDrain
       ELSE state' = [state EXCEPT !.buffer_overflow = FALSE] /\ HistKeep
    /\ UNCHANGED kscan_dev

handle_get_events(req) ==
    /\ IF req.clear_buffer
       THEN /\ state' = [state EXCEPT !.event_head = 0, !.event_count = 0,
                                      !.buffer_overflow = FALSE]
            /\ HistDrain
       ELSE UNCHANGED state /\ HistKeep
    /\ UNCHANGED kscan_dev

handle_configure_chattering(req) ==
    /\ state' = [state EXCEPT
                   !.chattering_window_ms = IF req.window_ms > 0 THEN req.window_ms ELSE @,
                   !.chattering_threshold = IF req.threshold_count > 0 THEN req.threshold_count
                                            ELSE @]
    /\ UNCHANGED kscan_dev /\ HistKeep

handle_get_chattering_alerts_unfiltered ==
    [which |-> "chattering_alerts",
     alerts |-> SubSeq(state.chattering_alerts, 1,
                       MIN(Len(state.chattering_alerts), ALERTS_RESP_LEN))]

\* SelectSeq keeps the order of the list, as the copy loop does.
handle_get_chattering_alerts_response ==
    LET meets(a) == a.event_count >= state.chattering_threshold
        hits == SelectSeq(state.chattering_alerts, meets)
    IN [which |-> "chattering_alerts",
        alerts |-> SubSeq(hits, 1, MIN(Len(hits), ALERTS_RESP_LEN))]

handle_get_chattering_alerts(req) ==
    /\ state' = IF req.clear_alerts THEN [state EXCEPT !.chattering_alerts = <<>>]
                ELSE state
    /\ UNCHANGED kscan_dev /\ HistKeep

\* `hw` is what the GPIO driver answers: "not_ready" (device_is_ready fails),
\* "error" (gpio_pin_get_dt < 0), "low" or "high".
handle_test_gpio_pin_response(req, hw) ==
    IF req.gpio_index >= CHARLIEPLEX_GPIO_COUNT
    THEN [which |-> "test_gpio_pin", gpio_index |-> req.gpio_index,
          success |-> FALSE, error_message |-> "Invalid GPIO index"]
    ELSE IF hw = "not_ready"
    THEN [which |-> "test_gpio_pin", gpio_index |-> req.gpio_index,
          success |-> FALSE, error_message |-> "GPIO port not ready"]
    ELSE IF hw = "error"
    THEN [which |-> "test_gpio_pin", gpio_index |-> req.gpio_index,
          success |-> FALSE, error_message |-> "GPIO read error"]
    ELSE [which |-> "test_gpio_pin", gpio_index |-> req.gpio_index,
          success |-> TRUE, pin_state |-> (hw = "high")]

\* The pin is read, nothing is written.
handle_test_gpio_pin(req) == UNCHANGED stateVars /\ HistKeep

StateRequests ==
    {[which |-> w] : w \in {"malformed", "unsupported", "get_kscan_config", "get_key_matrix",
                            "stop_monitoring"}}
      \cup {[which |-> "start_monitoring", max_events |-> 0]}
      \cup {[which |-> "get_events", max_count |-> n, clear_buffer |-> b] :
               n \in MaxCountInputs, b \in BOOLEAN}
      \cup {[which |-> "configure_chattering", window_ms |-> 0, threshold_count |-> 0],
            [which |-> "configure_chattering", window_ms |-> 30, threshold_count |-> 2],
            [which |-> "configure_chattering", window_ms |-> 8, threshold_count |-> 3]}
      \cup {[which |-> "get_chattering_alerts", clear_alerts |-> b] : b \in BOOLEAN}
      \cup {[which |-> "test_gpio_pin", gpio_index |-> i] : i \in {0, CHARLIEPLEX_GPIO_COUNT}}

HardwareAnswers == {"not_ready", "error", "low", "high"}

keyscan_diagnostics_handle_request_response_norc(req, hw) ==
    CASE req.which = "malformed" -> ErrorResponse("Failed to decode request")
      [] req.which = "get_kscan_config" -> handle_get_kscan_config_response
      [] req.which = "get_key_matrix" -> handle_get_key_matrix_response
      [] req.which = "start_monitoring" ->
           handle_start_monitoring_state_response(hw # "not_ready")
      [] req.which = "stop_monitoring" -> [which |-> "stop_monitoring", success |-> TRUE]
      [] req.which = "get_events" -> handle_get_events_response(req)
      [] req.which = "configure_chattering" ->
           [which |-> "configure_chattering", success |-> TRUE]
      [] req.which = "get_chattering_alerts" -> handle_get_chattering_alerts_response
      [] req.which = "test_gpio_pin" -> handle_test_gpio_pin_response(req, hw)
      [] OTHER -> [which |-> "none"]

\* What keyscan_diagnostics_handle_request answers to req; `hw` stands for
\* the drivers' answers the handlers read.
keyscan_diagnostics_handle_request_response(req, hw) ==
    CASE req.which = "malformed" -> ErrorResponse("Failed to decode request")
      [] req.which = "get_kscan_config" -> handle_get_kscan_config_response
      [] req.which = "get_key_matrix" -> handle_get_key_matrix_response
      [] req.which = "start_monitoring" ->
           handle_start_monitoring_state_response(hw # "not_ready")
      [] req.which = "stop_monitoring" -> [which |-> "stop_monitoring", success |-> TRUE]
      [] req.which = "get_events" -> handle_get_events_response(req)
      [] req.which = "configure_chattering" ->
           [which |-> "configure_chattering", success |-> TRUE]
      [] req.which = "get_chattering_alerts" -> handle_get_chattering_alerts_response
      [] req.which = "test_gpio_pin" -> handle_test_gpio_pin_response(req, hw)
      [] OTHER -> ErrorResponse("Failed to process request")

keyscan_diagnostics_handle_request(req) ==
    CASE req.which = "get_kscan_config" -> handle_get_kscan_config
      [] req.which = "get_key_matrix" -> handle_get_key_matrix
      [] req.which = "start_monitoring" -> handle_start_monitoring_state(req)
      [] req.which = "stop_monitoring" -> handle_stop_monitoring_state
      [] req.which = "get_events" -> handle_get_events(req)
      [] req.which = "configure_chattering" -> handle_configure_chattering(req)
      [] req.which = "get_chattering_alerts" -> handle_get_chattering_alerts(req)
      [] req.which = "test_gpio_pin" -> handle_test_gpio_pin(req)
      [] OTHER -> UNCHANGED stateVars /\ HistKeep

StateEvent(p, d) ==
    /\ variant = "state"
    /\ Deliver(KeyEvent(p, d), PairAt(p) # NoPair /\ state.monitoring_active)
    /\ keyscan_diagnostics_position_listener(KeyEvent(p, d))
    /\ UNCHANGED <<kscan_dev, diagVars, mutexVars, threadVars, ui>>

StateRequest(req) ==
    /\ variant = "state"
    /\ keyscan_diagnostics_handle_request(req)
    /\ UNCHANGED <<variant, now, key_down, n_events, diagVars, mutexVars, threadVars, ui>>

(***************************************************************************)
(*                         Build "mutex"                                   *)
(* Every API function takes diag_mutex around its whole body, so each is   *)
(* one step of the model.                                                  *)
(***************************************************************************)
ZeroDiagEvent == [row |-> 0, col |-> 0, pressed |-> FALSE, timestamp_ms |-> 0]

\* Index of the chatter_stats entry of (row, col), 0 when there is none.
FindChatterStats(stats, row, col) ==
    IF \E i \in 1..Len(stats) : stats[i].row = row /\ stats[i].col = col
    THEN CHOOSE i \in 1..Len(stats) :
            /\ stats[i].row = row /\ stats[i].col = col
            /\ \A j \in 1..(i - 1) : ~(stats[j].row = row /\ stats[j].col = col)
    ELSE 0

\* get_chatter_stats: the list with an entry for (row, col), created when
\* missing and there is room.
get_chatter_stats(stats, row, col) ==
    IF FindChatterStats(stats, row, col) # 0 THEN stats
    ELSE IF Len(stats) < MAX_CHATTER_STATS
    THEN Append(stats, [row |-> row, col |-> col, event_count |-> 0, chatter_count |-> 0,
                        last_event_ms |-> 0, min_interval_ms |-> UINT32_MAX])
    ELSE stats

add_event_dropwhenfull(row, col, pressed, timestamp_ms) ==
    IF event_buffer_count < EVENT_BUFFER_SIZE
    THEN /\ event_buffer' = [event_buffer EXCEPT ![event_buffer_head] =
                                [row |-> row, col |-> col, pressed |-> pressed,
                                 timestamp_ms |-> timestamp_ms]]
         /\ event_buffer_head' = (event_buffer_head + 1) % EVENT_BUFFER_SIZE
         /\ event_buffer_count' = event_buffer_count + 1
         /\ total_event_count' = total_event_count + 1
    ELSE UNCHANGED bufVars

add_event(row, col, pressed, timestamp_ms) ==
    /\ event_buffer' = [event_buffer EXCEPT ![event_buffer_head] =
                           [row |-> row, col |-> col, pressed |-> pressed,
                            timestamp_ms |-> timestamp_ms]]
    /\ event_buffer_head' = (event_buffer_head + 1) % EVENT_BUFFER_SIZE
    /\ event_buffer_count' = IF event_buffer_count < EVENT_BUFFER_SIZE
                             THEN event_buffer_count + 1 ELSE event_buffer_count
    /\ total_event_count' = total_event_count + 1

update_chatter_stats(row, col, timestamp_ms) ==
    LET list == get_chatter_stats(chatter_stats, row, col)
        i == FindChatterStats(list, row, col)
    IN IF i = 0 THEN UNCHANGED chatter_stats
       ELSE LET old == list[i]
                interval_ms == timestamp_ms - old.last_event_ms
                timed == old.last_event_ms > 0
            IN chatter_stats' =
                 [list EXCEPT ![i] =
                    [row |-> row, col |-> col,
                     event_count |-> old.event_count + 1,
                     chatter_count |-> IF timed /\ interval_ms < chatter_threshold_ms
                                       THEN old.chatter_count + 1 ELSE old.chatter_count,
                     last_event_ms |-> timestamp_ms,
                     min_interval_ms |-> IF timed /\ interval_ms < old.min_interval_ms
                                         THEN interval_ms ELSE old.min_interval_ms]]

keyscan_diagnostics_start(chatter_threshold) ==
    /\ chatter_threshold_ms' = IF chatter_threshold > 0 THEN chatter_threshold
                               ELSE chatter_threshold_ms
    /\ monitoring_active' = TRUE
    /\ UNCHANGED <<bufVars, chatter_stats, topoVars>>

keyscan_diagnostics_stop ==
    /\ monitoring_active' = FALSE
    /\ UNCHANGED <<bufVars, chatter_stats, topoVars, chatter_threshold_ms>>

keyscan_diagnostics_get_recent_events_fromhead(max_count) ==
    IF max_count = 0 THEN <<>>
    ELSE LET count == MIN(event_buffer_count, max_count)
             start_idx == event_buffer_head
         IN [i \in 1..count |-> event_buffer[(start_idx + (i - 1)) % EVENT_BUFFER_SIZE]]

keyscan_diagnostics_get_recent_events(max_count) ==
    IF max_count = 0 THEN <<>>
    ELSE LET count == MIN(event_buffer_count, max_count)
             start_idx == (event_buffer_head + EVENT_BUFFER_SIZE - count) % EVENT_BUFFER_SIZE
         IN [i \in 1..count |-> event_buffer[(start_idx + (i - 1)) % EVENT_BUFFER_SIZE]]

keyscan_diagnostics_get_chatter_stats(max_count) ==
    IF max_count = 0 THEN <<>>
    ELSE SubSeq(chatter_stats, 1, MIN(Len(chatter_stats), max_count))

keyscan_diagnostics_get_gpio_pins(max_count) ==
    IF max_count = 0 THEN 0 ELSE MIN(gpio_pins_count, max_count)

keyscan_diagnostics_clear_keepstats ==
    /\ event_buffer_head' = 0
    /\ event_buffer_count' = 0
    /\ total_event_count' = 0
    /\ UNCHANGED <<event_buffer, chatter_stats, topoVars, monitoring_active,
                   chatter_threshold_ms>>

keyscan_diagnostics_clear_likeinit ==
    /\ event_buffer_head' = 0
    /\ event_buffer_count' = 0
    /\ total_event_count' = 0
    /\ chatter_stats' = <<>>
    /\ gpio_pins_count' = 0
    /\ monitoring_active' = FALSE
    /\ UNCHANGED <<event_buffer, matrix_rows, matrix_cols, chatter_threshold_ms>>

keyscan_diagnostics_clear ==
    /\ event_buffer_head' = 0
    /\ event_buffer_count' = 0
    /\ total_event_count' = 0
    /\ chatter_stats' = <<>>
    /\ UNCHANGED <<event_buffer, topoVars, monitoring_active, chatter_threshold_ms>>

keyscan_diagnostics_event_callback(row, col, pressed, timestamp_ms) ==
    IF ~monitoring_active
    THEN UNCHANGED mutexVars
    ELSE /\ add_event(row, col, pressed, timestamp_ms)
         /\ update_chatter_stats(row, col, timestamp_ms)
         /\ UNCHANGED <<topoVars, monitoring_active, chatter_threshold_ms>>

\* The RPC front of the build (lines 352..598).
handle_start_monitoring(req) ==
    LET chatter_threshold == IF req.chatter_threshold_ms = 0 THEN CONFIG_CHATTER_THRESHOLD_MS
                             ELSE req.chatter_threshold_ms
    IN /\ keyscan_diagnostics_start(chatter_threshold)
       /\ HistKeep

handle_stop_monitoring ==
    /\ keyscan_diagnostics_stop
    /\ HistKeep

handle_get_state_response ==
    [which |-> "get_state",
     monitoring_active |-> monitoring_active,
     total_events |-> total_event_count,
     recent_events |-> keyscan_diagnostics_get_recent_events(GET_STATE_EVENTS_LEN),
     chatter_stats |-> keyscan_diagnostics_get_chatter_stats(GET_STATE_STATS_LEN),
     gpio_pins_count |-> keyscan_diagnostics_get_gpio_pins(GET_STATE_PINS_LEN)]

handle_get_state == UNCHANGED mutexVars /\ HistKeep

handle_clear_data ==
    /\ keyscan_diagnostics_clear
    /\ HistReset

handle_get_gpio_config_response ==
    [which |-> "get_gpio_config",
     gpio_pins_count |-> keyscan_diagnostics_get_gpio_pins(GET_STATE_PINS_LEN),
     matrix_rows |-> matrix_rows, matrix_cols |-> matrix_cols]

handle_get_gpio_config == UNCHANGED mutexVars /\ HistKeep

MutexRequests ==
    {[which |-> w] : w \in {"malformed", "unsupported", "stop_monitoring", "get_state",
                            "clear_data", "get_gpio_config"}}
      \cup {[which |-> "start_monitoring", chatter_threshold_ms |-> t] : t \in ThresholdInputs}

\* What the RPC front answers to req.
keyscan_diagnostics_rpc_handle_request_response(req) ==
    CASE req.which = "malformed" -> ErrorResponse("Failed to decode request")
      [] req.which = "start_monitoring" ->
           [which |-> "start_monitoring", success |-> TRUE,
            gpio_count |-> keyscan_diagnostics_get_gpio_pins(GET_STATE_PINS_LEN)]
      [] req.which = "stop_monitoring" -> [which |-> "stop_monitoring", success |-> TRUE]
      [] req.which = "get_state" -> handle_get_state_response
      [] req.which = "clear_data" -> [which |-> "clear_data", success |-> TRUE]
      [] req.which = "get_gpio_config" -> handle_get_gpio_config_response
      [] OTHER -> ErrorResponse("Failed to process request (rc=-1)")

keyscan_diagnostics_rpc_handle_request_fallthrough(req) ==
    CASE req.which = "start_monitoring" -> handle_start_monitoring(req)
      [] req.which = "stop_monitoring" -> handle_stop_monitoring
      [] req.which = "get_state" -> handle_get_state
      [] req.which = "get_gpio_config" -> handle_get_gpio_config
      [] req.which = "malformed" -> UNCHANGED mutexVars /\ HistKeep
      [] OTHER -> handle_clear_data

keyscan_diagnostics_rpc_handle_request(req) ==
    CASE req.which = "start_monitoring" -> handle_start_monitoring(req)
      [] req.which = "stop_monitoring" -> handle_stop_monitoring
      [] req.which = "get_state" -> handle_get_state
      [] req.which = "clear_data" -> handle_clear_data
      [] req.which = "get_gpio_config" -> handle_get_gpio_config
      [] OTHER -> UNCHANGED mutexVars /\ HistKeep

\* The kscan driver wrapper hands the callback the (row, col) of the key.
MutexEvent(p, d) ==
    /\ variant = "mutex"
    /\ PairAt(p) # NoPair
    /\ Deliver(KeyEvent(p, d), monitoring_active)
    /\ keyscan_diagnostics_event_callback(PairAt(p)[1], PairAt(p)[2], ~key_down[p], now + d)
    /\ UNCHANGED <<diagVars, stateVars, threadVars, ui>>

MutexRequest(req) ==
    /\ variant = "mutex"
    /\ keyscan_diagnostics_rpc_handle_request(req)
    /\ UNCHANGED <<variant, now, key_down, n_events, diagVars, stateVars, threadVars, ui>>

(***************************************************************************)
(* The two contexts.  Key events are raised on the thread that scans the   *)
(* matrix, requests are handled on the RPC thread; each runs the code      *)
(* above a step at a time.  A step is the flag test on entry, a            *)
(* k_mutex_lock, the accesses between lock and unlock (or, in the builds   *)
(* without a mutex, the accesses of the function), a k_mutex_unlock.       *)
(***************************************************************************)
MutexFree == "free"
NoCall == [which |-> "none"]
ProducerIdle == [pc |-> "idle", ev |-> NoCall]
ConsumerIdle == [pc |-> "idle", req |-> NoCall, resp |-> NoCall, todo |-> <<>>]

\* The engine functions the RPC front of the "mutex" build calls for req, in
\* order; each locks and unlocks diag_mutex on its own.
ApiCalls(req) ==
    CASE req.which = "start_monitoring" -> <<"start", "get_gpio_pins">>
      [] req.which = "stop_monitoring" -> <<"stop">>
      [] req.which = "get_state" ->
           <<"is_monitoring", "get_total_events", "get_recent_events",
             "get_chatter_stats", "get_gpio_pins">>
      [] req.which = "clear_data" -> <<"clear">>
      [] req.which = "get_gpio_config" -> <<"get_gpio_pins", "get_matrix_size">>
      [] OTHER -> <<>>

\* Whether the listener / callback goes on to record ev, tested on entry.
EventPassesGate(ev) ==
    CASE variant = "diag" -> ev.position < KEYSCAN_DIAG_KEY_COUNT
      [] variant = "state" -> PairAt(ev.position) # NoPair /\ state.monitoring_active
      [] OTHER -> monitoring_active

\* An event is raised and its listener / callback entered.
ThreadEventEnter(p, d) ==
    /\ producer.pc = "idle"
    /\ n_events < MaxEvents
    /\ variant = "mutex" => PairAt(p) # NoPair
    /\ n_events' = n_events + 1
    /\ now' = now + d
    /\ key_down' = [key_down EXCEPT ![p] = ~key_down[p]]
    /\ producer' = IF EventPassesGate(KeyEvent(p, d))
                   THEN [pc |-> IF variant = "mutex" THEN "lock" ELSE "inside",
                         ev |-> KeyEvent(p, d)]
                   ELSE ProducerIdle
    /\ UNCHANGED <<variant, hist, buf_mark, diagVars, stateVars, mutexVars, diag_mutex,
                   consumer, ui>>

\* k_mutex_lock in keyscan_diagnostics_event_callback.
ThreadEventLock ==
    /\ producer.pc = "lock"
    /\ diag_mutex = MutexFree
    /\ diag_mutex' = "producer"
    /\ producer' = [producer EXCEPT !.pc = "inside"]
    /\ UNCHANGED <<envVars, diagVars, stateVars, mutexVars, consumer, ui>>

\* The accesses of the listener / callback.
ThreadEventRecord ==
    /\ producer.pc = "inside"
    /\ LET ev == producer.ev
           pair == PairAt(ev.position)
       IN /\ hist' = Append(hist, [position |-> ev.position, pressed |-> ev.state,
                                   timestamp_ms |-> ev.timestamp])
          /\ CASE variant = "diag" ->
                    /\ keyscan_diag_account(ev.position, ev)
                    /\ UNCHANGED <<stateVars, mutexVars>>
               [] variant = "state" ->
                    /\ state' = KeyStatsUpdate(
                                    BufferPut(state, [row |-> pair[1], col |-> pair[2],
                                                      pressed |-> ev.state,
                                                      timestamp_ms |-> ev.timestamp]),
                                    pair[1], pair[2], ev.state, ev.timestamp)
                    /\ UNCHANGED <<kscan_dev, diagVars, mutexVars>>
               [] OTHER ->
                    /\ add_event(pair[1], pair[2], ev.state, ev.timestamp)
                    /\ update_chatter_stats(pair[1], pair[2], ev.timestamp)
                    /\ UNCHANGED <<topoVars, monitoring_active, chatter_threshold_ms,
                                   diagVars, stateVars>>
    /\ producer' = IF variant = "mutex" THEN [producer EXCEPT !.pc = "unlock"]
                   ELSE ProducerIdle
    /\ UNCHANGED <<variant, now, key_down, n_events, buf_mark, diag_mutex, consumer, ui>>

ThreadEventUnlock_keepslock ==
    /\ producer.pc = "unlock"
    /\ producer' = ProducerIdle
    /\ UNCHANGED <<envVars, diagVars, stateVars, mutexVars, diag_mutex, consumer, ui>>

\* k_mutex_unlock in keyscan_diagnostics_event_callback.
ThreadEventUnlock ==
    /\ producer.pc = "unlock"
    /\ diag_mutex' = MutexFree
    /\ producer' = ProducerIdle
    /\ UNCHANGED <<envVars, diagVars, stateVars, mutexVars, consumer, ui>>

\* A request arrives and is decoded and dispatched.
ThreadRequestEnter(req) ==
    /\ consumer.pc = "idle"
    /\ req \in (CASE variant = "diag" -> DiagRequests
                  [] variant = "state" -> StateRequests
                  [] OTHER -> MutexRequests)
    /\ consumer' =
          IF req.which \in {"malformed", "unsupported"} THEN ConsumerIdle
          ELSE [pc |-> IF variant = "mutex" THEN "lock" ELSE "inside",
                req |-> req, resp |-> NoCall,
                todo |-> IF variant = "mutex" THEN ApiCalls(req) ELSE <<>>]
    /\ UNCHANGED <<envVars, diagVars, stateVars, mutexVars, diag_mutex, producer, ui>>

\* k_mutex_lock in the engine function the handler calls next.
ThreadRequestLock ==
    /\ consumer.pc = "lock"
    /\ diag_mutex = MutexFree
    /\ diag_mutex' = "consumer"
    /\ consumer' = [consumer EXCEPT !.pc = "inside"]
    /\ UNCHANGED <<envVars, diagVars, stateVars, mutexVars, producer, ui>>

\* The accesses of the handler: keyscan_diag_fill_snapshot up to the reset,
\* a whole handler of the "state" build, or the body of one engine function
\* of the "mutex" build.
ThreadRequestAccess ==
    /\ consumer.pc = "inside"
    /\ CASE variant = "diag" ->
              /\ consumer' =
                    IF consumer.req.reset_counters
                    THEN [consumer EXCEPT !.pc = "reset",
                                          !.resp = keyscan_diag_fill_snapshot_response]
                    ELSE ConsumerIdle
              /\ UNCHANGED <<diagVars, stateVars, mutexVars>> /\ HistKeep
         [] variant = "state" ->
              /\ keyscan_diagnostics_handle_request(consumer.req)
              /\ consumer' = ConsumerIdle
              /\ UNCHANGED <<diagVars, mutexVars>>
         [] OTHER ->
              /\ CASE Head(consumer.todo) = "start" ->
                        /\ keyscan_diagnostics_start(
                               IF consumer.req.chatter_threshold_ms = 0
                               THEN CONFIG_CHATTER_THRESHOLD_MS
                               ELSE consumer.req.chatter_threshold_ms)
                        /\ HistKeep
                   [] Head(consumer.todo) = "stop" -> keyscan_diagnostics_stop /\ HistKeep
                   [] Head(consumer.todo) = "clear" -> keyscan_diagnostics_clear /\ HistReset
                   [] OTHER -> UNCHANGED mutexVars /\ HistKeep
              /\ consumer' = [consumer EXCEPT !.pc = "unlock"]
              /\ UNCHANGED <<diagVars, stateVars>>
    /\ UNCHANGED <<variant, now, key_down, n_events, diag_mutex, producer, ui>>

\* keyscan_diag_reset_counters at the end of keyscan_diag_fill_snapshot.
ThreadRequestReset ==
    /\ consumer.pc = "reset"
    /\ keyscan_diag_reset_counters /\ HistReset
    /\ consumer' = ConsumerIdle
    /\ UNCHANGED <<variant, now, key_down, n_events, stateVars, mutexVars, diag_mutex,
                   producer, ui>>

ThreadRequestUnlock_keepslock ==
    /\ consumer.pc = "unlock"
    /\ consumer' = IF Len(consumer.todo) > 1
                   THEN [consumer EXCEPT !.pc = "lock", !.todo = Tail(@)]
                   ELSE ConsumerIdle
    /\ UNCHANGED <<envVars, diagVars, stateVars, mutexVars, diag_mutex, producer, ui>>

\* k_mutex_unlock in the engine function; the handler calls the next one or
\* returns.
ThreadRequestUnlock ==
    /\ consumer.pc = "unlock"
    /\ diag_mutex' = MutexFree
    /\ consumer' = IF Len(consumer.todo) > 1
                   THEN [consumer EXCEPT !.pc = "lock", !.todo = Tail(@)]
                   ELSE ConsumerIdle
    /\ UNCHANGED <<envVars, diagVars, stateVars, mutexVars, producer, ui>>

(***************************************************************************)
(* The web UI.  The "state" build is driven by web/src/App.tsx, the        *)
(* "mutex" build by the DiagnosticsSection of the web README's App.tsx.    *)
(* Of the UI's state the model keeps the monitoring flag, the error banner *)
(* and the position of the handler that is running; the data it displays   *)
(* (events, matrix, alerts, device state) is left out.  One handler runs   *)
(* at a time.                                                              *)
(***************************************************************************)
NoError == "null"
UiInit == [pc |-> "mount", monitoring |-> FALSE, resp |-> NoCall, error |-> NoError]

\* sendRequest / callRPC: the request reaches the device and the answer the
\* UI, or the request is lost, or the answer is; a lost call returns null.
RpcOutcomes == {"answered", "request_lost", "response_lost"}

UiAnswer(req, outcome, hw) ==
    IF outcome # "answered" THEN NoCall
    ELSE IF variant = "state" THEN keyscan_diagnostics_handle_request_response(req, hw)
    ELSE keyscan_diagnostics_rpc_handle_request_response(req)

UiDevice(req, outcome) ==
    IF outcome = "request_lost"
    THEN UNCHANGED <<stateVars, mutexVars>> /\ HistKeep
    ELSE IF variant = "state"
    THEN keyscan_diagnostics_handle_request(req) /\ UNCHANGED mutexVars
    ELSE keyscan_diagnostics_rpc_handle_request(req) /\ UNCHANGED stateVars

\* What the UI renders and runs while its monitoring flag is set.
UiShowsStopControl == ui.pc # "mount" /\ ui.monitoring
UiPolling == ui.pc # "mount" /\ ui.monitoring

\* loadState of the "mutex" UI, given the answer to getState.
UiLoadedMonitoring(resp) ==
    IF resp.which = "get_state" THEN resp.monitoring_active ELSE ui.monitoring

\* The effects that run when the section is mounted: loadConfig, or
\* loadGPIOConfig and loadState.
UiMount(outcome, hw) ==
    /\ variant \in {"state", "mutex"}
    /\ ui.pc = "mount"
    /\ IF variant = "state"
       THEN /\ UiDevice([which |-> "get_kscan_config"], outcome)
            /\ ui' = [ui EXCEPT !.pc = "idle",
                        !.error = LET resp == UiAnswer([which |-> "get_kscan_config"],
                                                       outcome, hw)
                                  IN IF resp.which = "error" THEN resp.message ELSE @]
       ELSE /\ UiDevice([which |-> "get_state"], outcome)
            /\ ui' = [ui EXCEPT !.pc = "idle",
                        !.monitoring = UiLoadedMonitoring(
                                           UiAnswer([which |-> "get_state"], outcome, hw))]
    /\ UNCHANGED <<variant, now, key_down, n_events, diagVars, threadVars>>

\* The user clicks Start Monitoring: the request is sent and awaited.
UiStartClick(outcome, hw, threshold) ==
    /\ variant \in {"state", "mutex"}
    /\ ui.pc = "idle"
    /\ ~ui.monitoring
    /\ LET req == IF variant = "state"
                  THEN [which |-> "start_monitoring", max_events |-> 0]
                  ELSE [which |-> "start_monitoring", chatter_threshold_ms |-> threshold]
       IN /\ UiDevice(req, outcome)
          /\ ui' = [ui EXCEPT !.pc = "start", !.resp = UiAnswer(req, outcome, hw)]
    /\ UNCHANGED <<variant, now, key_down, n_events, diagVars, threadVars>>

UiStartReturn_ignoresuccess ==
    /\ ui.pc = "start"
    /\ ui' = [ui EXCEPT !.pc = IF variant = "mutex" THEN "start_load" ELSE "idle",
                        !.monitoring = TRUE]
    /\ UNCHANGED <<envVars, diagVars, stateVars, mutexVars, threadVars>>

\* handleStartMonitoring / startMonitoring after the await.
UiStartReturn ==
    /\ ui.pc = "start"
    /\ LET success == ui.resp.which = "start_monitoring" /\ ui.resp.success
       IN ui' = IF success
                THEN [ui EXCEPT !.pc = IF variant = "mutex" THEN "start_load" ELSE "idle",
                                !.monitoring = TRUE,
                                !.error = IF variant = "state" THEN NoError ELSE @]
                ELSE [ui EXCEPT !.pc = "idle",
                                !.error = IF /\ variant = "state"
                                             /\ ui.resp.which = "start_monitoring"
                                             /\ ui.resp.message # ""
                                          THEN ui.resp.message ELSE @]
    /\ UNCHANGED <<envVars, diagVars, stateVars, mutexVars, threadVars>>

\* The loadState that startMonitoring and stopMonitoring await last.
UiLoadState(outcome) ==
    /\ ui.pc \in {"start_load", "stop_load"}
    /\ UiDevice([which |-> "get_state"], outcome)
    /\ ui' = [ui EXCEPT !.pc = "idle",
                        !.monitoring = UiLoadedMonitoring(
                                           UiAnswer([which |-> "get_state"], outcome, "low"))]
    /\ UNCHANGED <<variant, now, key_down, n_events, diagVars, threadVars>>

\* The user clicks Stop Monitoring.  handleStopMonitoring clears the flag
\* whatever the answer, stopMonitoring only on success.
UiStopClick(outcome) ==
    /\ variant \in {"state", "mutex"}
    /\ ui.pc = "idle"
    /\ ui.monitoring
    /\ UiDevice([which |-> "stop_monitoring"], outcome)
    /\ LET resp == UiAnswer([which |-> "stop_monitoring"], outcome, "low")
       IN ui' = IF variant = "state"
                THEN [ui EXCEPT !.monitoring = FALSE, !.resp = resp]
                ELSE IF resp.which = "stop_monitoring" /\ resp.success
                THEN [ui EXCEPT !.monitoring = FALSE, !.resp = resp, !.pc = "stop_load"]
                ELSE [ui EXCEPT !.resp = resp]
    /\ UNCHANGED <<variant, now, key_down, n_events, diagVars, threadVars>>

\* One round of the polling effect: getEvents{clearBuffer: true} (followed
\* by getKeyMatrix and getChatteringAlerts, which write nothing), or
\* loadState.
UiPoll(outcome) ==
    /\ variant \in {"state", "mutex"}
    /\ ui.pc = "idle"
    /\ UiPolling
    /\ IF variant = "state"
       THEN /\ UiDevice([which |-> "get_events", max_count |-> 0, clear_buffer |-> TRUE],
                        outcome)
            /\ UNCHANGED ui
       ELSE /\ UiDevice([which |-> "get_state"], outcome)
            /\ ui' = [ui EXCEPT !.monitoring =
                         UiLoadedMonitoring(UiAnswer([which |-> "get_state"], outcome, "low"))]
    /\ UNCHANGED <<variant, now, key_down, n_events, diagVars, threadVars>>

(***************************************************************************)
(* Start-up: statics as initialised, then the SYS_INIT hooks               *)
(* (keyscan_diag_init, keyscan_diagnostics_init).                          *)
(***************************************************************************)
Variants == {"diag", "state", "mutex"}

\* Everything but the choice of the build.
EngineInit ==
    /\ now = 0
    /\ key_down = [p \in EventPositions |-> FALSE]
    /\ n_events = 0
    /\ hist = <<>>
    /\ buf_mark = 0
    /\ keyscan_stats = [i \in 0..(KEYSCAN_DIAG_KEY_COUNT - 1) |-> ZeroStat]
    /\ keyscan_diag_line_activity = [l \in 0..(KEYSCAN_DIAG_LINE_COUNT - 1) |-> 0]
    /\ state = StateInit
    /\ kscan_dev = NullDevice
    /\ event_buffer = [i \in 0..(EVENT_BUFFER_SIZE - 1) |-> ZeroDiagEvent]
    /\ event_buffer_head = 0
    /\ event_buffer_count = 0
    /\ total_event_count = 0
    /\ chatter_stats = <<>>
    /\ gpio_pins_count = MIN(KSCAN_NODE_GPIOS_LEN, MAX_GPIO_PINS)
    /\ matrix_rows = MIN(KSCAN_NODE_GPIOS_LEN, MAX_GPIO_PINS)
    /\ matrix_cols = MIN(KSCAN_NODE_GPIOS_LEN, MAX_GPIO_PINS)
    /\ monitoring_active = FALSE
    /\ chatter_threshold_ms = CONFIG_CHATTER_THRESHOLD_MS
    /\ diag_mutex = MutexFree
    /\ producer = ProducerIdle
    /\ consumer = ConsumerIdle
    /\ ui = UiInit

Init ==
    /\ variant \in Variants
    /\ EngineInit

Next ==
    \/ \E e \in EventInputs : DiagEvent(e[1], e[2])
    \/ \E req \in DiagRequests : DiagRequest(req)
    \/ \E e \in EventInputs : StateEvent(e[1], e[2])
    \/ \E req \in StateRequests : StateRequest(req)
    \/ \E e \in EventInputs : MutexEvent(e[1], e[2])
    \/ \E req \in MutexRequests : MutexRequest(req)

\* Any of the three builds.
Spec == Init /\ [][Next]_vars

\* One build at a time.
InitDiag == Init /\ variant = "diag"
NextDiag ==
    \/ \E e \in EventInputs : DiagEvent(e[1], e[2])
    \/ \E req \in DiagRequests : DiagRequest(req)
SpecDiag == InitDiag /\ [][NextDiag]_vars

InitState == Init /\ variant = "state"
NextState ==
    \/ \E e \in EventInputs : StateEvent(e[1], e[2])
    \/ \E req \in StateRequests : StateRequest(req)
SpecState == InitState /\ [][NextState]_vars

InitMutex == Init /\ variant = "mutex"
NextMutex ==
    \/ \E e \in EventInputs : MutexEvent(e[1], e[2])
    \/ \E req \in MutexRequests : MutexRequest(req)
SpecMutex == InitMutex /\ [][NextMutex]_vars

\* The two contexts interleaved step by step, any of the three builds.
NextThreads ==
    \/ \E e \in ThreadEventInputs : ThreadEventEnter(e[1], e[2])
    \/ ThreadEventLock
    \/ ThreadEventRecord
    \/ ThreadEventUnlock
    \/ \E req \in DiagRequests \cup StateRequests \cup MutexRequests : ThreadRequestEnter(req)
    \/ ThreadRequestLock
    \/ ThreadRequestAccess
    \/ ThreadRequestReset
    \/ ThreadRequestUnlock
SpecThreads == Init /\ [][NextThreads]_vars

\* A device and its web UI.
InitUi == Init /\ variant \in {"state", "mutex"}
NextUi ==
    \/ \E e \in ThreadEventInputs : StateEvent(e[1], e[2])
    \/ \E e \in ThreadEventInputs : MutexEvent(e[1], e[2])
    \/ \E o \in RpcOutcomes, hw \in HardwareAnswers : UiMount(o, hw)
    \/ \E o \in RpcOutcomes, hw \in HardwareAnswers, t \in ThresholdInputs :
          UiStartClick(o, hw, t)
    \/ UiStartReturn
    \/ \E o \in RpcOutcomes : UiLoadState(o)
    \/ \E o \in RpcOutcomes : UiStopClick(o)
    \/ \E o \in RpcOutcomes : UiPoll(o)
SpecUi == InitUi /\ [][NextUi]_vars

(***************************************************************************)
(*                            Properties                                   *)
(***************************************************************************)
ValidPositions == {p \in EventPositions : ValidPosition(p)}

\* The recorded events of the key at position p, oldest first.
HistOf(p) ==
    LET OnKey(h) == h.position = p IN SelectSeq(hist, OnKey)

Timestamps(seq) == [i \in 1..Len(seq) |-> seq[i].timestamp_ms]

Presses(seq) ==
    LET IsPress(h) == h.pressed IN Len(SelectSeq(seq, IsPress))

\* A recorded event as the (row, col) builds store it.
AsBuffered(h) ==
    [row |-> PairAt(h.position)[1], col |-> PairAt(h.position)[2],
     pressed |-> h.pressed, timestamp_ms |-> h.timestamp_ms]

\* The last n recorded events, oldest first, as the (row, col) builds store them.
LastRecorded(n) == [i \in 1..n |-> AsBuffered(hist[Len(hist) - n + i])]

\* The statistics the "state" build keeps for the key at position p.
KeyStatsOf(p) ==
    state.key_stats[PairAt(p)[1] * CHARLIEPLEX_GPIO_COUNT + PairAt(p)[2]]

\* Whether monitoring is on.  The "diag" build has no monitoring flag and no
\* request that starts monitoring: monitoring is never on there.
MonitoringActive ==
    CASE variant = "diag" -> FALSE
      [] variant = "state" -> state.monitoring_active
      [] OTHER -> monitoring_active

EventStep ==
    \E e \in EventInputs :
        DiagEvent(e[1], e[2]) \/ StateEvent(e[1], e[2]) \/ MutexEvent(e[1], e[2])

\* C1: an event delivered while monitoring is inactive changes no per-key
\* statistic, no line activity counter, nothing of the event buffer and no
\* total-events counter.  The "diag" build violates it: keyscan_diag_listener
\* accounts every event, there is no gate.
C1_InactiveEventChangesNothing ==
    [][(EventStep /\ ~MonitoringActive) => UNCHANGED <<diagVars, stateVars, mutexVars>>]_vars

\* C2: with window 30 ms and burst threshold 3, three events of one key at
\* 0, 5 and 10 ms leave its chatter count at 1 and its burst reset, and a
\* fourth at 15 ms leaves the count at 1 with a fresh burst of one event.
\* Violated: burst_start == 0 also means "no burst open", so the burst that
\* opens at 0 ms is opened again at 5 ms and the third event is only its
\* second.
C2_BurstLawFromZero ==
    \A p \in ValidPositions :
        /\ Timestamps(HistOf(p)) = <<0, 5, 10>> =>
              keyscan_stats[p].chatter_count = 1 /\ keyscan_stats[p].burst = 0
        /\ Timestamps(HistOf(p)) = <<0, 5, 10, 15>> =>
              keyscan_stats[p].chatter_count = 1 /\ keyscan_stats[p].burst = 1

\* C3: for every valid key, press_count + release_count equals the number of
\* events recorded for it (those raised while monitoring was on, since the
\* last reset), presses and releases counted apart.
C3_CountsAddUp ==
    \A p \in ValidPositions :
        /\ variant = "diag" =>
              /\ keyscan_stats[p].press_count + keyscan_stats[p].release_count
                    = Len(HistOf(p))
              /\ keyscan_stats[p].press_count = Presses(HistOf(p))
        /\ variant = "state" =>
              /\ KeyStatsOf(p).press_count + KeyStatsOf(p).release_count = Len(HistOf(p))
              /\ KeyStatsOf(p).press_count = Presses(HistOf(p))

C3_Witness ==
    \E p \in ValidPositions :
        /\ variant = "state"
        /\ Len(HistOf(p)) = 3
        /\ KeyStatsOf(p).press_count = 2
        /\ KeyStatsOf(p).release_count = 1

ClearDataStep == MutexRequest([which |-> "clear_data"])

\* C5: right after a ClearData request the state query answers with
\* total_events = 0, no recent event and no chatter statistics entry.
C5_ClearThenQueryIsEmpty ==
    [][ClearDataStep =>
          /\ handle_get_state_response'.total_events = 0
          /\ handle_get_state_response'.recent_events = <<>>
          /\ handle_get_state_response'.chatter_stats = <<>>]_vars

\* A recorded event is still in its slot, yet nothing is counted: the data
\* was cleared after it.
C5_Witness ==
    /\ variant = "mutex"
    /\ event_buffer[0] # ZeroDiagEvent
    /\ handle_get_state_response.total_events = 0
    /\ handle_get_state_response.recent_events = <<>>

\* C6: ClearData changes neither the topology (GPIO pin list, matrix rows
\* and columns) nor the monitoring flag nor the chatter threshold.
C6_ClearKeepsTopologyAndFlags ==
    [][ClearDataStep => UNCHANGED <<topoVars, monitoring_active, chatter_threshold_ms>>]_vars

C6_Witness ==
    /\ variant = "mutex"
    /\ event_buffer[0] # ZeroDiagEvent
    /\ total_event_count = 0
    /\ monitoring_active
    /\ chatter_threshold_ms # CONFIG_CHATTER_THRESHOLD_MS
    /\ gpio_pins_count = KSCAN_NODE_GPIOS_LEN

\* The keys whose line pair, in the line map, includes line l.
KeysOnLine(l) ==
    {i \in 0..(KEYSCAN_DIAG_KEY_COUNT - 1) :
        keyscan_line_map[i].valid
          /\ (keyscan_line_map[i].drive = l \/ keyscan_line_map[i].sense = l)}

C8_FreshMatrix ==
    /\ variant = "state" =>
          LET keys == handle_get_key_matrix_response.keys IN
          /\ Len(keys) = CHARLIEPLEX_GPIO_COUNT * (CHARLIEPLEX_GPIO_COUNT - 1)
          /\ \A k \in 1..Len(keys) :
                /\ keys[k].row # keys[k].col
                /\ keys[k].gpio_out_index = keys[k].row
                /\ keys[k].gpio_in_index = keys[k].col
                /\ \A j \in 1..Len(keys) :
                      (keys[j].row = keys[k].row /\ keys[j].col = keys[k].col) => j = k
                /\ n_events = 0 =>
                      /\ keys[k].press_count = 0
                      /\ keys[k].release_count = 0
                      /\ ~keys[k].current_state
    /\ (variant = "diag" /\ n_events = 0) =>
          LET snap == keyscan_diag_fill_snapshot_response IN
          /\ Len(snap.keys) = KEYSCAN_DIAG_LINE_COUNT * (KEYSCAN_DIAG_LINE_COUNT - 1)
          /\ \A k \in 1..Len(snap.keys) :
                /\ snap.keys[k].never_seen
                /\ snap.keys[k].press_count = 0
                /\ snap.keys[k].release_count = 0
                /\ snap.keys[k].chatter_count = 0
          /\ Len(snap.lines) = KEYSCAN_DIAG_LINE_COUNT
          /\ \A k \in 1..Len(snap.lines) : snap.lines[k].activity = 0

\* Monitoring was started and no event has been raised yet.
C8_Witness ==
    /\ variant = "state"
    /\ n_events = 0
    /\ state.monitoring_active
    /\ Len(handle_get_key_matrix_response.keys) = KEY_MATRIX_KEYS_LEN

OutOfRangeEvent ==
    \E e \in EventInputs :
        /\ ~ValidPosition(e[1])
        /\ DiagEvent(e[1], e[2]) \/ StateEvent(e[1], e[2])

\* C9: an event whose position is not below the key count changes no
\* statistic, no line counter, no buffer entry and no total counter.
C9_OutOfRangeDropped ==
    [][OutOfRangeEvent => UNCHANGED <<diagVars, stateVars, mutexVars>>]_vars

\* An out-of-range press arrived while monitoring was on.
C9_Witness ==
    /\ variant = "state"
    /\ key_down[KEYSCAN_DIAG_KEY_COUNT]
    /\ state.monitoring_active
    /\ state.total_events = 0

\* C10: a StartMonitoring request sets the monitoring flag, takes over a
\* nonzero threshold of the request, and leaves the event buffer empty, the
\* total-events counter at 0 and every per-key / chatter counter at 0.
\* Violated by the "mutex" build: keyscan_diagnostics_start touches neither
\* the buffer nor the counters.
C10_StartResets ==
    [][/\ \A req \in StateRequests :
             (req.which = "start_monitoring" /\ StateRequest(req)) =>
                 /\ state'.monitoring_active
                 /\ state'.event_count = 0
                 /\ ~state'.buffer_overflow
                 /\ state'.total_events = 0
                 /\ state'.chattering_alerts = <<>>
                 /\ \A i \in KeyStatsIdx : state'.key_stats[i] = ZeroKeyStats
       /\ \A req \in MutexRequests :
             (req.which = "start_monitoring" /\ MutexRequest(req)) =>
                 /\ monitoring_active'
                 /\ req.chatter_threshold_ms # 0 =>
                       chatter_threshold_ms' = req.chatter_threshold_ms
                 /\ event_buffer_count' = 0
                 /\ total_event_count' = 0
                 /\ chatter_stats' = <<>>]_vars

StopMonitoringStep ==
    \/ StateRequest([which |-> "stop_monitoring"])
    \/ MutexRequest([which |-> "stop_monitoring"])

\* C11: a StopMonitoring request leaves the monitoring flag false, answers
\* with success, and changes nothing else: the buffered events, the
\* total-events counter, the per-key counters, the chatter statistics and
\* alerts and the configured window / threshold stay as they were.
C11_StopOnlyClearsFlag ==
    [][StopMonitoringStep =>
          /\ ~MonitoringActive'
          /\ variant = "state" =>
                /\ \A hw \in HardwareAnswers :
                      keyscan_diagnostics_handle_request_response(
                          [which |-> "stop_monitoring"], hw)
                         = [which |-> "stop_monitoring", success |-> TRUE]
                /\ state' = [state EXCEPT !.monitoring_active = FALSE]
          /\ variant = "mutex" =>
                keyscan_diagnostics_rpc_handle_request_response([which |-> "stop_monitoring"])
                   = [which |-> "stop_monitoring", success |-> TRUE]
          /\ UNCHANGED <<kscan_dev, diagVars, bufVars, chatter_stats, topoVars,
                         chatter_threshold_ms>>]_vars

\* Monitoring is off and the events recorded before the stop are all there.
C11_Witness ==
    /\ variant = "state"
    /\ ~state.monitoring_active
    /\ state.event_count = MAX_EVENTS
    /\ state.total_events > MAX_EVENTS
    /\ state.chattering_alerts # <<>>

\* Whether seq is a run of consecutive recorded events, oldest first.
ChronologicalRun(seq) ==
    \E first \in 1..(Len(hist) + 1) :
        /\ first + Len(seq) - 1 <= Len(hist)
        /\ seq = [i \in 1..Len(seq) |-> AsBuffered(hist[first + i - 1])]

\* C12: a read of the event buffer with a maximum count returns
\* min(buffered count, maximum count) events, oldest first.  Violated by
\* GetEvents: handle_get_events reads only clear_buffer of the request and
\* copies every buffered event the response array has room for.
C12_AtMostMaxCount ==
    /\ variant = "state" =>
          \A req \in StateRequests :
              req.which = "get_events" =>
                 LET r == handle_get_events_response(req) IN
                 /\ Len(r.events) = MIN(state.event_count, req.max_count)
                 /\ ChronologicalRun(r.events)
    /\ variant = "mutex" =>
          \A n \in 0..(EVENT_BUFFER_SIZE + 1) :
              LET events == keyscan_diagnostics_get_recent_events(n) IN
              /\ Len(events) = MIN(event_buffer_count, n)
              /\ ChronologicalRun(events)

\* The response case that belongs to each request case the dispatchers list.
ResponseCaseOf ==
    [snapshot |-> "snapshot",
     get_kscan_config |-> "kscan_config", get_key_matrix |-> "key_matrix",
     start_monitoring |-> "start_monitoring", stop_monitoring |-> "stop_monitoring",
     get_events |-> "events", configure_chattering |-> "configure_chattering",
     get_chattering_alerts |-> "chattering_alerts", test_gpio_pin |-> "test_gpio_pin",
     get_state |-> "get_state", clear_data |-> "clear_data",
     get_gpio_config |-> "get_gpio_config"]

ExpectedCase(req) ==
    IF req.which \in {"malformed", "unsupported"} THEN "error" ELSE ResponseCaseOf[req.which]

\* C13: every request is answered with one response case: the case of the
\* dispatched request kind when its handler returns 0 (every listed handler
\* does), the Error case for a request that does not decode or that the
\* dispatcher does not list; an Error carries a message and no payload.
C13_OneMatchingCase ==
    /\ variant = "diag" =>
          \A req \in DiagRequests :
              LET r == keyscan_diag_handle_request_response(req) IN
              /\ r.which = ExpectedCase(req)
              /\ r.which = "error" => DOMAIN r = {"which", "message"}
    /\ variant = "state" =>
          \A req \in StateRequests, hw \in HardwareAnswers :
              LET r == keyscan_diagnostics_handle_request_response(req, hw) IN
              /\ r.which = ExpectedCase(req)
              /\ r.which = "error" => DOMAIN r = {"which", "message"}
    /\ variant = "mutex" =>
          \A req \in MutexRequests :
              LET r == keyscan_diagnostics_rpc_handle_request_response(req) IN
              /\ r.which = ExpectedCase(req)
              /\ r.which = "error" => DOMAIN r = {"which", "message"}

\* Events are buffered: GetEvents answers with them, an unlisted request
\* with Error.
C13_Witness ==
    /\ variant = "state"
    /\ state.event_count = MAX_EVENTS
    /\ \A hw \in HardwareAnswers :
          /\ keyscan_diagnostics_handle_request_response(
                 [which |-> "get_events", max_count |-> MAX_EVENTS, clear_buffer |-> FALSE],
                 hw).events # <<>>
          /\ keyscan_diagnostics_handle_request_response([which |-> "unsupported"], hw)
                = ErrorResponse("Failed to process request")

\* Requests that do not decode, or whose case no dispatcher lists.
BadRequests == {[which |-> "malformed"], [which |-> "unsupported"]}

BadRequestStep ==
    \E req \in BadRequests : DiagRequest(req) \/ StateRequest(req) \/ MutexRequest(req)

\* C14: a request that fails to decode, or whose case is not recognised, is
\* answered with the Error case and leaves the engine state (monitoring flag,
\* configuration, buffer, counters) as it was.
C14_BadRequestIsErrorOnly ==
    /\ [][BadRequestStep => UNCHANGED <<diagVars, stateVars, mutexVars>>]_vars
    /\ [](\A req \in BadRequests :
             /\ keyscan_diag_handle_request_response(req).which = "error"
             /\ \A hw \in HardwareAnswers :
                   keyscan_diagnostics_handle_request_response(req, hw).which = "error"
             /\ keyscan_diagnostics_rpc_handle_request_response(req).which = "error")

\* Monitoring is on and data is recorded: the state a bad request must keep.
C14_Witness ==
    /\ variant = "mutex"
    /\ monitoring_active
    /\ total_event_count > EVENT_BUFFER_SIZE
    /\ chatter_stats # <<>>
    /\ \A req \in BadRequests :
          keyscan_diagnostics_rpc_handle_request_response(req).which = "error"

\* Whether a context is between the first and the last of its accesses to
\* the shared statistics, line counters, event buffer or total counter.
ProducerInside == producer.pc = "inside"
ConsumerInside == consumer.pc \in {"inside", "reset"}

\* C15: whatever the interleaving of the two contexts, a context that reads
\* or writes the per-key statistics, the line activity counters, the event
\* buffer or the total-events counter holds the diagnostics mutex, so the
\* two are never inside those accesses together.  Violated: only the
\* "mutex" build has a mutex; keyscan_diag_listener, record_key_event and
\* the request handlers of the other two builds take no lock.
C15_AccessesHoldMutex ==
    /\ ProducerInside => diag_mutex = "producer"
    /\ ConsumerInside => diag_mutex = "consumer"
    /\ ~(ProducerInside /\ ConsumerInside)

\* C16: a Snapshot with reset_counters loses no event: the counters the
\* reset zeroes are the counters the response reported.  Violated: the
\* listener can account an event between the building of the response and
\* the reset, and nothing excludes it.
C16_SnapshotResetAtomic ==
    [][ThreadRequestReset => keyscan_diag_fill_snapshot_response = consumer.resp]_vars

\* C17: no valid event that arrives while monitoring is on is rejected.
\* Each is counted in the total and appended to the buffer, and the buffer
\* holds the most recent of them, oldest first: as many as were recorded
\* since the last drain or reset, up to the capacity.  So an event leaves
\* the buffer only when newer ones overwrite it or a drain / reset removes it.
C17_NoEventRejected ==
    /\ variant = "state" =>
          LET n == MIN(MAX_EVENTS, Len(hist) - buf_mark) IN
          /\ state.total_events = Len(hist)
          /\ state.event_count = n
          /\ [i \in 1..n |-> state.events[(state.event_head + (i - 1)) % MAX_EVENTS]]
                = LastRecorded(n)
    /\ variant = "mutex" =>
          LET n == MIN(EVENT_BUFFER_SIZE, Len(hist)) IN
          /\ total_event_count = Len(hist)
          /\ event_buffer_count = n
          /\ keyscan_diagnostics_get_recent_events(EVENT_BUFFER_SIZE) = LastRecorded(n)

\* More events than the buffer holds were recorded; the newest are in it.
C17_Witness ==
    /\ variant = "mutex"
    /\ monitoring_active
    /\ Len(hist) = EVENT_BUFFER_SIZE + 1
    /\ total_event_count = EVENT_BUFFER_SIZE + 1
    /\ event_buffer_count = EVENT_BUFFER_SIZE

\* C18: a GetConfig (get_kscan_config) request changes no state variable,
\* the matrix dimensions that event recording reads included.  Violated:
\* handle_get_kscan_config writes state.max_rows and state.max_cols, which
\* are 0 until then.
C18_GetConfigChangesNothing ==
    [][StateRequest([which |-> "get_kscan_config"])
          => UNCHANGED <<diagVars, stateVars, mutexVars>>]_vars

\* C19: a TestGpioPin request whose gpio_index is not below the line count
\* is answered with the Error case.  Violated: handle_test_gpio_pin returns
\* 0 with a test_gpio_pin payload (success = false and an error message), so
\* the dispatcher never turns it into an Error.
C19_BadIndexIsError ==
    variant = "state" =>
        \A req \in StateRequests, hw \in HardwareAnswers :
            (req.which = "test_gpio_pin" /\ req.gpio_index >= CHARLIEPLEX_GPIO_COUNT) =>
                keyscan_diagnostics_handle_request_response(req, hw).which = "error"

\* The positions, in the alert list, of the alerts that meet the threshold.
AlertsMeeting ==
    {i \in 1..Len(state.chattering_alerts) :
        state.chattering_alerts[i].event_count >= state.chattering_threshold}

GetChatteringAlertsStep(b) ==
    StateRequest([which |-> "get_chattering_alerts", clear_alerts |-> b])

TimestampsOfPair(row, col) ==
    LET OnPair(h) == PairAt(h.position) = <<row, col>>
    IN Timestamps(SelectSeq(hist, OnPair))

\* The largest number of events of ts that lie in one window of window_ms
\* milliseconds (a window opens at an event and excludes its far end).
MostInOneWindow(ts, window_ms) ==
    LET InWindow(i) == {j \in 1..Len(ts) : ts[j] >= ts[i] /\ ts[j] - ts[i] < window_ms}
        sizes == {Cardinality(InWindow(i)) : i \in 1..Len(ts)}
    IN IF sizes = {} THEN 0 ELSE CHOOSE n \in sizes : \A m \in sizes : m <= n

\* C21: a chattering alert is reported for a key only if at least
\* chattering_threshold events of that key lie in one window of
\* chattering_window_ms milliseconds; events spread over several windows do
\* not add up.  The code violates it: an alert's event_count grows by one for
\* every event that follows the previous one by less than the window and is
\* never restarted, so a chain of close events longer than the window is
\* counted as one.
C21_AlertNeedsEventsInOneWindow ==
    variant = "state" =>
        LET alerts == handle_get_chattering_alerts_response.alerts IN
        \A k \in 1..Len(alerts) :
            MostInOneWindow(TimestampsOfPair(alerts[k].row, alerts[k].col),
                            state.chattering_window_ms) >= state.chattering_threshold


\* The statistics the "mutex" build keeps for the key at position p: its
\* chatter_stats entry, or what a fresh entry holds when it has none yet.
ChatterStatsOf(p) ==
    LET i == FindChatterStats(chatter_stats, PairAt(p)[1], PairAt(p)[2])
    IN IF i = 0
       THEN [row |-> PairAt(p)[1], col |-> PairAt(p)[2], event_count |-> 0,
             chatter_count |-> 0, last_event_ms |-> 0, min_interval_ms |-> UINT32_MAX]
       ELSE chatter_stats[i]

\* The intervals between the consecutive recorded events of the key at p.
IntervalsOf(p) ==
    LET ts == Timestamps(HistOf(p))
    IN {ts[i + 1] - ts[i] : i \in 1..(Len(ts) - 1)}

\* C22: in the mutex-protected engine every recorded event of a key that
\* arrives less than chatter_threshold_ms after the previous recorded event of
\* the same key adds exactly 1 to the key's chatter_count and no other event
\* adds anything, and min_interval_ms is the smallest interval between two
\* consecutive recorded events of the key.  The code violates it: an event is
\* compared with its predecessor only when the predecessor's timestamp is
\* above 0.
C22_ChatterCountLaw ==
    /\ [](variant = "mutex" =>
             \A p \in ValidPositions :
                 ChatterStatsOf(p).min_interval_ms =
                     IF IntervalsOf(p) = {} THEN UINT32_MAX
                     ELSE CHOOSE g \in IntervalsOf(p) : \A o \in IntervalsOf(p) : g <= o)
    /\ [][\A e \in EventInputs :
             (MutexEvent(e[1], e[2]) /\ monitoring_active) =>
                 LET h == HistOf(e[1])
                     chatter == /\ Len(h) > 0
                                /\ (now + e[2]) - h[Len(h)].timestamp_ms < chatter_threshold_ms
                 IN ChatterStatsOf(e[1])'.chatter_count =
                        ChatterStatsOf(e[1]).chatter_count + (IF chatter THEN 1 ELSE 0)]_vars


\* C23: when the answer to Start Monitoring comes back, the UI enters the
\* monitoring state (Stop Monitoring control shown, polling running) if it
\* is a StartMonitoring response with success = true, and stays stopped if
\* there is no response or success is false; the state reload that ends the
\* "mutex" UI's handler leaves a UI that entered the monitoring state in it.
C23_StartEntersMonitoringOnSuccess ==
    /\ [][UiStartReturn =>
             IF ui.resp.which = "start_monitoring" /\ ui.resp.success
             THEN UiShowsStopControl' /\ UiPolling'
             ELSE ~UiShowsStopControl' /\ ~UiPolling']_vars
    /\ [][(ui.pc = "start_load" /\ ui'.pc = "idle") =>
             UiShowsStopControl' /\ UiPolling']_vars

\* The device answered success and the UI, its handler finished, shows the
\* Stop Monitoring control.
C23_Witness ==
    /\ ui.pc = "idle"
    /\ ui.resp.which = "start_monitoring" /\ ui.resp.success
    /\ UiShowsStopControl /\ UiPolling
    /\ MonitoringActive


\* A recorded event of the "diag" build on the key at position e[1].
DiagRecordStep(e) == DiagEvent(e[1], e[2]) /\ ValidPosition(e[1])

\* C24: on each recorded event of a key chatter_count grows by 1 or not at
\* all; it grows exactly when the burst, this event counted, reaches
\* CHATTER_BURST, and then the burst length is back at 0 and burst_start is
\* the event's timestamp; otherwise the burst holds this event (it is 1, or
\* one more than before).  After every event the stored burst length is
\* below CHATTER_BURST.
C24_ChatterCountedWhenBurstFull ==
    /\ [](\A i \in 0..(KEYSCAN_DIAG_KEY_COUNT - 1) : keyscan_stats[i].burst < CHATTER_BURST)
    /\ [][\A e \in EventInputs :
             DiagRecordStep(e) =>
                 LET old == keyscan_stats[e[1]]
                     new == keyscan_stats'[e[1]]
                 IN /\ new.chatter_count \in {old.chatter_count, old.chatter_count + 1}
                    /\ new.chatter_count = old.chatter_count + 1 =>
                          /\ old.burst + 1 >= CHATTER_BURST
                          /\ new.burst = 0
                          /\ new.burst_start = now + e[2]
                    /\ new.chatter_count = old.chatter_count =>
                          /\ new.burst \in {1, old.burst + 1}
                          /\ new.burst < CHATTER_BURST]_vars

\* The third event of a burst has been counted as one chattering episode.
C24_Witness ==
    \E p \in ValidPositions :
        /\ variant = "diag"
        /\ Timestamps(HistOf(p)) = <<5, 10, 15>>
        /\ keyscan_stats[p].chatter_count = 1
        /\ keyscan_stats[p].burst = 0
        /\ keyscan_stats[p].burst_start = 15


\* C25: a recorded event belongs to the key's current burst exactly when a
\* burst is open (the key has had an event since the last reset) and the
\* event is at most CHATTER_WINDOW_MS after burst_start: the burst then grows
\* by this event (and is counted and restarted when full).  Any other event
\* starts a new burst of length 1 at its own timestamp.  The code violates
\* it: burst_start == 0 is its test for "no burst open", so a burst that
\* started at timestamp 0 is not continued.
C25_BurstMembership ==
    [][\A e \in EventInputs :
          DiagRecordStep(e) =>
              LET old == keyscan_stats[e[1]]
                  new == keyscan_stats'[e[1]]
                  timestamp == now + e[2]
                  belongs == old.seen /\ timestamp - old.burst_start <= CHATTER_WINDOW_MS
                  full == old.burst + 1 >= CHATTER_BURST
              IN IF belongs
                 THEN /\ new.burst = IF full THEN 0 ELSE old.burst + 1
                      /\ new.burst_start = IF full THEN timestamp ELSE old.burst_start
                 ELSE new.burst = 1 /\ new.burst_start = timestamp]_vars


\* A GetEvents request with clear_buffer = b, a StartMonitoring request.
GetEventsStep(b) ==
    \E n \in MaxCountInputs :
        StateRequest([which |-> "get_events", max_count |-> n, clear_buffer |-> b])

StartMonitoringStateStep == StateRequest([which |-> "start_monitoring", max_events |-> 0])

PairBefore(a, b) == a[1] < b[1] \/ (a[1] = b[1] /\ a[2] < b[2])

\* The pairs of the positions are in range with drive # sense and strictly
\* increasing in the order of the enumeration (so no two positions share a
\* pair); all N * (N - 1) off-diagonal pairs are used and no position beyond
\* has a pair.
PairsEnumerated ==
    LET N == CHARLIEPLEX_GPIO_COUNT
        pairs == [p \in 0..(N * N) |-> PairAt(p)]
    IN /\ \A p \in 0..(N * (N - 1) - 1) :
             /\ pairs[p] # NoPair
             /\ pairs[p][1] \in 0..(N - 1) /\ pairs[p][2] \in 0..(N - 1)
             /\ pairs[p][1] # pairs[p][2]
             /\ p > 0 => PairBefore(pairs[p - 1], pairs[p])
       /\ \A p \in (N * (N - 1))..(N * N) : pairs[p] = NoPair

\* No valid entry of the "diag" build's line map has drive = sense.
LineMapOffDiagonal ==
    \A p \in 0..(KEYSCAN_DIAG_KEY_COUNT - 1) :
        keyscan_line_map[p].valid => keyscan_line_map[p].drive # keyscan_line_map[p].sense

\* C27: position p denotes the p-th pair of the enumeration drive over
\* [0, N), sense over [0, N), drive # sense: the mapping is injective, every
\* mapped pair has drive # sense, and the pair the listener derives for
\* position p is the (row, col) at index p of the key matrix response.
C27_PositionIsPthPair ==
    /\ PairsEnumerated
    /\ LineMapOffDiagonal
    /\ variant = "state" =>
          LET keys == handle_get_key_matrix_response.keys IN
          /\ Len(keys) = MIN(CHARLIEPLEX_GPIO_COUNT * (CHARLIEPLEX_GPIO_COUNT - 1),
                             KEY_MATRIX_KEYS_LEN)
          /\ \A p \in 0..(Len(keys) - 1) :
                PairAt(p) = <<keys[p + 1].row, keys[p + 1].col>>

\* An event on position 4 was recorded as (row 1, col 2), and the key matrix
\* reports it at index 4.
C27_Witness ==
    /\ variant = "state"
    /\ state.event_count = 1
    /\ state.events[state.event_head].row = 1 /\ state.events[state.event_head].col = 2
    /\ hist = <<[position |-> 4, pressed |-> TRUE, timestamp_ms |-> 5]>>
    /\ handle_get_key_matrix_response.keys[5].press_count = 1


\* C28: every engine function that takes diag_mutex gives it back on every
\* exit path: a context that is not inside an engine function (it has not
\* entered one, it left one through the early return of the flag test, it
\* returned from one and has not locked the next) does not hold the mutex,
\* and the mutex is held only by a context that is between its lock and its
\* unlock.
C28_ReturnedCallHoldsNoMutex ==
    /\ producer.pc \in {"idle", "lock"} => diag_mutex # "producer"
    /\ consumer.pc \in {"idle", "lock"} => diag_mutex # "consumer"
    /\ diag_mutex = "producer" => producer.pc \in {"inside", "unlock"}
    /\ diag_mutex = "consumer" => consumer.pc \in {"inside", "unlock"}

\* One event left the callback through the early return (monitoring was
\* off), a later one was recorded and the callback returned: the request
\* context could take the mutex.
C28_Witness ==
    /\ variant = "mutex"
    /\ n_events = 2 /\ Len(hist) = 1
    /\ producer.pc = "idle"
    /\ diag_mutex = "consumer"
    /\ consumer.pc = "inside"


\* The reset operations: Snapshot with reset_counters, StartMonitoring,
\* ClearData.
ResetStep ==
    \/ DiagRequest([which |-> "snapshot", reset_counters |-> TRUE])
    \/ StartMonitoringStateStep
    \/ \E t \in ThresholdInputs :
          MutexRequest([which |-> "start_monitoring", chatter_threshold_ms |-> t])
    \/ ClearDataStep

\* The number of events and of chattering episodes the build has counted for
\* the key at position p (the "state" build keeps no chatter counter).
CountedEvents(p) ==
    CASE variant = "diag" -> keyscan_stats[p].press_count + keyscan_stats[p].release_count
      [] variant = "state" -> KeyStatsOf(p).press_count + KeyStatsOf(p).release_count
      [] OTHER -> ChatterStatsOf(p).event_count

CountedChatter(p) ==
    CASE variant = "diag" -> keyscan_stats[p].chatter_count
      [] variant = "state" -> 0
      [] OTHER -> ChatterStatsOf(p).chatter_count

\* C29: in every step that is not a reset operation, for every key the
\* number of counted events (press_count + release_count) grows by exactly 1
\* if the step records an event of that key and is unchanged otherwise, and
\* chatter_count does not decrease.  (A step that leaves the recorded events
\* and the counters alone satisfies this at once.)
C29_CountersGrowBetweenResets ==
    [][\/ /\ hist' = hist
             /\ keyscan_stats' = keyscan_stats
             /\ state'.key_stats = state.key_stats
             /\ chatter_stats' = chatter_stats
          \/ \A p \in ValidPositions :
             LET recorded == /\ Len(hist') = Len(hist) + 1
                             /\ hist'[Len(hist')].position = p
             IN /\ CountedEvents(p)' = CountedEvents(p) + (IF recorded THEN 1 ELSE 0)
                /\ CountedChatter(p)' >= CountedChatter(p)
          \/ ResetStep]_vars

\* Two keys have been counted, one twice and one once, with no reset since.
C29_Witness ==
    /\ variant = "diag"
    /\ Len(HistOf(0)) = 2 /\ CountedEvents(0) = 2
    /\ Len(HistOf(4)) = 1 /\ CountedEvents(4) = 1


\* C30: in every state the snapshot reports never_seen for a key exactly
\* when no event has been recorded for the key since the last reset, which
\* is exactly when its press_count + release_count is 0.
C30_NeverSeenIffNoEvent ==
    variant = "diag" =>
        LET keys == keyscan_diag_fill_snapshot_response.keys IN
        \A k \in 1..Len(keys) :
            /\ keys[k].never_seen <=> Len(HistOf(keys[k].position)) = 0
            /\ keys[k].never_seen <=> keys[k].press_count + keys[k].release_count = 0

\* Key 0 was pressed and released before the counters were reset, key 4 was
\* pressed after: key 0 is reported never seen, key 4 is not.
C30_Witness ==
    /\ variant = "diag"
    /\ n_events = 3
    /\ hist = <<[position |-> 4, pressed |-> TRUE, timestamp_ms |-> 15]>>
    /\ keyscan_diag_fill_snapshot_response.keys[1].never_seen
    /\ ~keyscan_diag_fill_snapshot_response.keys[5].never_seen


\* The recorded events on keys whose line-map entry is valid and names
\* line l as drive or as sense; those on keys with a valid entry at all.
EventsOnLine(l) ==
    LET OnLine(h) == /\ keyscan_line_map[h.position].valid
                     /\ (keyscan_line_map[h.position].drive = l
                            \/ keyscan_line_map[h.position].sense = l)
    IN Len(SelectSeq(hist, OnLine))

EventsOnMappedKeys ==
    LET Mapped(h) == keyscan_line_map[h.position].valid
    IN Len(SelectSeq(hist, Mapped))

RECURSIVE SumActivity(_)
SumActivity(l) ==
    IF l >= KEYSCAN_DIAG_LINE_COUNT THEN 0
    ELSE keyscan_diag_line_activity[l] + SumActivity(l + 1)

C32_NoEventAfterStopReturned ==
    [][(ThreadEventRecord /\ variant = "mutex" /\ ~monitoring_active) =>
          UNCHANGED <<bufVars, chatter_stats>>]_vars


\* The events in the "state" build's buffer, oldest first.
BufferedEvents == [i \in 1..state.event_count |->
                      state.events[(state.event_head + (i - 1)) % MAX_EVENTS]]

\* C33: a GetEvents request with clear_buffer discards no event it did not
\* return, whatever the sizes of buffer and response array: each event
\* buffered before the request is in the response or still buffered after
\* it.  The code violates it: the copy stops at the size of the response
\* array, the clearing does not.
C33_DrainLosesNothing ==
    [][GetEventsStep(TRUE) =>
          \A resp_len \in ResponseArraySizes :
              \A i \in 1..state.event_count :
                  \/ i <= Len(handle_get_events_copy(resp_len))
                  \/ \E j \in 1..state'.event_count :
                        state'.events[(state'.event_head + (j - 1)) % MAX_EVENTS]
                            = BufferedEvents[i]]_vars


\* C34: the ring-buffer indices are well formed in every reachable state:
\* the head is below the capacity, the count at most the capacity, the
\* buffered events are the last `count` accepted events in recording order,
\* and a set overflow flag means the buffer is full.
C34_RingBufferWellFormed ==
    /\ variant = "state" =>
          /\ state.event_head \in 0..(MAX_EVENTS - 1)
          /\ state.event_count \in 0..MAX_EVENTS
          /\ BufferedEvents = LastRecorded(state.event_count)
          /\ state.buffer_overflow => state.event_count = MAX_EVENTS
    /\ variant = "mutex" =>
          /\ event_buffer_head \in 0..(EVENT_BUFFER_SIZE - 1)
          /\ event_buffer_count \in 0..EVENT_BUFFER_SIZE
          /\ keyscan_diagnostics_get_recent_events(EVENT_BUFFER_SIZE)
                = LastRecorded(event_buffer_count)

\* The buffer has wrapped: it is full, flagged, and its head is not slot 0.
C34_Witness ==
    /\ variant = "state"
    /\ state.buffer_overflow
    /\ state.event_count = MAX_EVENTS
    /\ state.event_head = 1
    /\ BufferedEvents = LastRecorded(MAX_EVENTS)


\* The total-events counter of the (row, col) builds.
TotalEvents == IF variant = "state" THEN state.total_events ELSE total_event_count

BufferedCount == IF variant = "state" THEN state.event_count ELSE event_buffer_count

StartMonitoringMutexStep ==
    \E req \in MutexRequests : req.which = "start_monitoring" /\ MutexRequest(req)

\* C35: the total-events counter is the number of events accepted since the
\* last StartMonitoring / ClearData / init: such a request leaves it at 0,
\* an accepted event adds exactly 1, no other step (GetEvents with or without
\* clear_buffer included) changes it, and it is never below the number of
\* buffered events.  Violated by the "mutex" build, whose StartMonitoring
\* keeps the counter.
C35_TotalCountsSinceLastStart ==
    /\ [](variant # "diag" => TotalEvents >= BufferedCount)
    /\ [][variant # "diag" =>
             TotalEvents' =
                 IF StartMonitoringStateStep \/ StartMonitoringMutexStep \/ ClearDataStep
                 THEN 0
                 ELSE IF Len(hist') = Len(hist) + 1 THEN TotalEvents + 1
                 ELSE TotalEvents]_vars


(***************************************************************************)
(* The two ring buffers side by side: record_key_event's buffer (head =    *)
(* oldest entry, overflow flag) and add_event's buffer (head = next write  *)
(* slot) take the same accepted events, starting from empty.               *)
(***************************************************************************)
BothBuffers == "both"

RingAccept(p, d) ==
    /\ variant = BothBuffers
    /\ PairAt(p) # NoPair
    /\ Deliver(KeyEvent(p, d), TRUE)
    /\ state' = BufferPut(state, [row |-> PairAt(p)[1], col |-> PairAt(p)[2],
                                  pressed |-> ~key_down[p], timestamp_ms |-> now + d])
    /\ add_event(PairAt(p)[1], PairAt(p)[2], ~key_down[p], now + d)
    /\ UNCHANGED <<kscan_dev, diagVars, chatter_stats, topoVars, monitoring_active,
                   chatter_threshold_ms, threadVars, ui>>

\* Both buffers emptied: the clearing of handle_get_events and
\* keyscan_diagnostics_clear.
RingEmpty ==
    /\ variant = BothBuffers
    /\ handle_get_events([which |-> "get_events", max_count |-> MAX_EVENTS,
                          clear_buffer |-> TRUE])
    /\ keyscan_diagnostics_clear
    /\ UNCHANGED <<variant, now, key_down, n_events, diagVars, threadVars, ui>>

InitRing == variant = BothBuffers /\ EngineInit
NextRing ==
    \/ \E e \in EventInputs : RingAccept(e[1], e[2])
    \/ RingEmpty
SpecRing == InitRing /\ [][NextRing]_vars

\* C36: the two ring buffers are observationally equivalent: with the same
\* capacity and the same sequence of accepted events from empty, a read of
\* all buffered events returns the same events in the same order from both.
C36_RingBuffersEquivalent ==
    MAX_EVENTS = EVENT_BUFFER_SIZE =>
        handle_get_events_copy(MAX_EVENTS)
            = keyscan_diagnostics_get_recent_events(EVENT_BUFFER_SIZE)

\* Both buffers have wrapped and hold two different events.
C36_Witness ==
    /\ variant = BothBuffers
    /\ state.buffer_overflow
    /\ event_buffer_head = 1
    /\ Len(keyscan_diagnostics_get_recent_events(EVENT_BUFFER_SIZE)) = EVENT_BUFFER_SIZE
    /\ keyscan_diagnostics_get_recent_events(EVENT_BUFFER_SIZE)[1]
          # keyscan_diagnostics_get_recent_events(EVENT_BUFFER_SIZE)[2]
    /\ handle_get_events_copy(MAX_EVENTS)
          = keyscan_diagnostics_get_recent_events(EVENT_BUFFER_SIZE)


(***************************************************************************)
(* The two contexts of the "mutex" build under fair scheduling.  A thread  *)
(* that is ready to run does run (weak fairness of the steps that need no  *)
(* mutex).  k_mutex_lock(K_FOREVER) queues the caller on the mutex and     *)
(* k_mutex_unlock hands the mutex to a queued waiter, so a thread that     *)
(* finds the mutex free again and again does get it (strong fairness of    *)
(* the two lock steps).  Nothing forces an event or a request to arrive.   *)
(***************************************************************************)
\* The events raised under fair scheduling: one key, one spacing.
FairEventInputs == {<<0, 5>>}

NextMutexThreads ==
    \/ \E e \in FairEventInputs : ThreadEventEnter(e[1], e[2])
    \/ ThreadEventLock
    \/ ThreadEventRecord
    \/ ThreadEventUnlock
    \/ \E req \in MutexRequests : ThreadRequestEnter(req)
    \/ ThreadRequestLock
    \/ ThreadRequestAccess
    \/ ThreadRequestUnlock

FairScheduling ==
    /\ WF_vars(ThreadEventRecord)
    /\ WF_vars(ThreadEventUnlock)
    /\ WF_vars(ThreadRequestAccess)
    /\ WF_vars(ThreadRequestUnlock)
    /\ SF_vars(ThreadEventLock)
    /\ SF_vars(ThreadRequestLock)

SpecMutexThreadsFair == InitMutex /\ [][NextMutexThreads]_vars /\ FairScheduling

\* C37: with the producer in keyscan_diagnostics_event_callback and the
\* consumer handling requests, under fair scheduling every callback returns
\* and every request is answered; no context asks for the mutex while it
\* holds it.
C37_EveryCallReturns ==
    /\ [](producer.pc = "lock" => diag_mutex # "producer")
    /\ [](consumer.pc = "lock" => diag_mutex # "consumer")
    /\ (producer.pc # "idle") ~> (producer.pc = "idle")
    /\ (consumer.pc # "idle") ~> (consumer.pc = "idle")

\* The callback waits for the mutex a request holds, with more engine
\* functions of that request still to come.
C37_Witness ==
    /\ variant = "mutex"
    /\ producer.pc = "lock"
    /\ diag_mutex = "consumer"
    /\ Len(consumer.todo) > 1


\* C38: a StartMonitoring request without a threshold (chatter_threshold_ms
\* = 0) keeps the chatter threshold in effect; the threshold changes only in
\* a StartMonitoring request that carries a nonzero value.  Violated:
\* handle_start_monitoring replaces the 0 by the configured default before
\* it calls keyscan_diagnostics_start, which then stores it.
C38_OmittedThresholdKeepsCurrent ==
    [][/\ MutexRequest([which |-> "start_monitoring", chatter_threshold_ms |-> 0]) =>
              chatter_threshold_ms' = chatter_threshold_ms
       /\ chatter_threshold_ms' # chatter_threshold_ms =>
              \E req \in MutexRequests :
                  /\ req.which = "start_monitoring"
                  /\ req.chatter_threshold_ms # 0
                  /\ MutexRequest(req)]_vars


\* The queries that only read.
ReadOnlyRequest(req) ==
    \/ req.which \in {"get_key_matrix", "get_state"}
    \/ req.which = "snapshot" /\ ~req.reset_counters
    \/ req.which = "get_events" /\ ~req.clear_buffer
    \/ req.which = "get_chattering_alerts" /\ ~req.clear_alerts

\* What the engine answers to the read-only query req in the current state.
QueryResponse(req) ==
    CASE variant = "diag" -> keyscan_diag_handle_request_response(req)
      [] variant = "state" -> keyscan_diagnostics_handle_request_response(req, "low")
      [] OTHER -> keyscan_diagnostics_rpc_handle_request_response(req)

\* The request the consumer is handling in this step.
RequestInStep == IF consumer.pc = "idle" THEN consumer'.req ELSE consumer.req

\* C39: the read-only queries (GetKeyMatrix, Snapshot without reset_counters,
\* GetState, GetEvents without clear_buffer, GetChatteringAlerts without
\* clear_alerts) have no side effect: no step of their handling changes an
\* engine state variable, so the same query asked again would be answered
\* the same.
C39_ReadOnlyQueriesChangeNothing ==
    [][consumer' # consumer =>
          \A req \in DiagRequests \cup StateRequests \cup MutexRequests :
              (req = RequestInStep /\ ReadOnlyRequest(req)) =>
                  /\ UNCHANGED <<diagVars, stateVars, mutexVars>>
                  /\ QueryResponse(req)' = QueryResponse(req)]_vars

\* Events are buffered and a GetEvents without clear_buffer has just been
\* answered from them.
C39_Witness ==
    /\ variant = "state"
    /\ state.event_count = MAX_EVENTS
    /\ state.buffer_overflow
    /\ consumer.pc = "inside"
    /\ consumer.req.which = "get_events"
    /\ ~consumer.req.clear_buffer

====
